---- MODULE Spec2Model ----
(***************************************************************************)
(* Verification model of the crop-health backend (src/backend/utils):      *)
(*   - the spectral index engine, its interpretation and the land-cover    *)
(*     classifier (ndvi.py, hyperspectral_analysis.py,                     *)
(*     real_satellite_api.py);                                             *)
(*   - the pest-risk assessor (hyperspectral_analysis.py);                 *)
(*   - the RealAgriculturalModel ensemble and the module-level model       *)
(*     loader (real_model.py, model_loader.py).                            *)
(*                                                                         *)
(* Reflectance values are integers in hundredths (Scale); index values are *)
(* exact rationals <<n, d>> with d > 0 in lowest terms, so the quotient    *)
(* (a - b) / (a + b) is computed, not assumed.                             *)
(***************************************************************************)
EXTENDS Integers, Sequences, FiniteSets, TLC

VARIABLES
    call,           \* name of the last function applied
    arg,            \* the input it was applied to
    ret,            \* what it returned
    inst,           \* RealAgriculturalModel instances: model, scaler, ...
    fs,             \* the joblib files on disk, by path
    loaded_model,   \* model_loader.loaded_model (process-wide singleton)
    scaler,         \* model_loader.scaler
    pc,             \* position of each concurrent caller of load_model
    real_model,     \* the local variable real_model of each caller
    train_runs,     \* number of train_model runs started so far
    db              \* the database tables the prediction routes write and read

vars == <<call, arg, ret, inst, fs, loaded_model, scaler, pc, real_model, train_runs, db>>

None == "None"
EmptyDict == <<>>
EmptyArray == <<>>

\* None where a number may stand (an absent optional float)
NoNumber == <<>>

\* float nan, and the two infinities: a zero denominator, under which the
\* cross-multiplied comparisons below answer as IEEE comparisons do (every
\* comparison with nan is false, -inf is below and +inf above every finite
\* number)
NaN == <<0, 0>>

PosInf == <<1, 0>>

NegInf == <<-1, 0>>

\* None where a reference to a RealAgriculturalModel instance may stand;
\* instances are numbered from 1
NoInstance == 0

-----------------------------------------------------------------------------
(* Bounds *)

MaxPixels == 2

\* number of RealAgriculturalModel instances the callers hold
NInst == 2

\* number of concurrent callers of model_loader.load_model
NThreads == 2

-----------------------------------------------------------------------------
(* Exact rational arithmetic *)

Abs(x) == IF x < 0 THEN -x ELSE x

Min2(a, b) == IF a < b THEN a ELSE b

RECURSIVE GCD(_, _)
GCD(a, b) == IF b = 0 THEN a ELSE GCD(b, a % b)

Rat(n, d) ==
    LET g == GCD(Abs(n), Abs(d))
        s == IF d < 0 THEN -1 ELSE 1
    IN  <<(s * n) \div g, (s * d) \div g>>

RLt(a, b) == a[1] * b[2] < b[1] * a[2]
RLe(a, b) == a[1] * b[2] <= b[1] * a[2]
RGt(a, b) == RLt(b, a)
RGe(a, b) == RLe(b, a)
RNeg(a) == <<-a[1], a[2]>>
RAdd(a, b) == Rat(a[1] * b[2] + b[1] * a[2], a[2] * b[2])
RDivInt(a, k) == Rat(a[1], a[2] * k)

RECURSIVE RSum(_)
RSum(s) == IF Len(s) = 0 THEN <<0, 1>> ELSE RAdd(Head(s), RSum(Tail(s)))

\* np.mean of a non-empty array
Mean(s) == RDivInt(RSum(s), Len(s))

\* a decimal literal with one digit after the point, e.g. Tenths(4) is 0.4
Tenths(k) == Rat(k, 10)

-----------------------------------------------------------------------------
(* Index engine: the standalone functions of ndvi.py *)

\* band values are stored in hundredths of a reflectance unit
Scale == 100

\* 1e-10, the replacement of a zero denominator, is 1/EpsInv of a
\* reflectance unit; it is far below the band resolution 1/Scale, so a
\* non-zero numerator over it saturates the clip exactly as 1e-10 does
EpsInv == 1000000

\* np.clip(x, -1, 1)
Clip(x) ==
    IF RGt(x, <<1, 1>>) THEN <<1, 1>>
    ELSE IF RLt(x, <<-1, 1>>) THEN <<-1, 1>>
    ELSE x

\* numpy broadcasting of two 1-D arrays: the common length, or -1 when the
\* shapes do not broadcast (numpy raises)
BroadcastLen(a, b) ==
    IF Len(a) = Len(b) THEN Len(a)
    ELSE IF Len(a) = 1 THEN Len(b)
    ELSE IF Len(b) = 1 THEN Len(a)
    ELSE -1

At(a, i) == IF Len(a) = 1 THEN a[1] ELSE a[i]

\* (a - b) / where(a + b == 0, 1e-10, a + b), clipped: one element
SafeRatioClipped(x, y) ==
    Clip(IF x + y = 0 THEN Rat((x - y) * EpsInv, Scale) ELSE Rat(x - y, x + y))

\* the common body of calculate_ndvi/ndwi/mndwi/ndsi: first - second over
\* first + second.  A broadcast error, or np.min of an empty result inside
\* the log line, raises; the except clause returns np.array([])
NormalizedDifference(first, second) ==
    LET n == BroadcastLen(first, second)
    IN  IF n <= 0 THEN EmptyArray
        ELSE [i \in 1..n |-> SafeRatioClipped(At(first, i), At(second, i))]

calculate_ndvi(red_band, nir_band) == NormalizedDifference(nir_band, red_band)

calculate_ndwi(nir_band, swir_band) == NormalizedDifference(nir_band, swir_band)

calculate_mndwi(green_band, swir_band) == NormalizedDifference(green_band, swir_band)

\* mutant: the snow index with its bands exchanged, (swir - green) / (swir + green)
calculate_ndsi_swapped(green_band, swir_band) == NormalizedDifference(swir_band, green_band)

calculate_ndsi(green_band, swir_band) == NormalizedDifference(green_band, swir_band)

IndexNames == {"ndvi", "ndwi", "mndwi", "ndsi"}

\* dict.get(k, []) on a bundle of named arrays
Get(d, k) == IF k \in DOMAIN d THEN d[k] ELSE EmptyArray

\* calculate_all_indices: an index is present iff both of its bands are
\* non-empty
calculate_all_indices(data) ==
    LET has(k) == Len(Get(data, k)) > 0
        keys == {k \in IndexNames :
                    \/ k = "ndvi" /\ has("red") /\ has("nir")
                    \/ k = "ndwi" /\ has("nir") /\ has("swir")
                    \/ k \in {"mndwi", "ndsi"} /\ has("green") /\ has("swir")}
    IN  [k \in keys |->
            CASE k = "ndvi"  -> calculate_ndvi(data.red, data.nir)
              [] k = "ndwi"  -> calculate_ndwi(data.nir, data.swir)
              [] k = "mndwi" -> calculate_mndwi(data.green, data.swir)
              [] k = "ndsi"  -> calculate_ndsi(data.green, data.swir)]

-----------------------------------------------------------------------------
(* Index formulas of HyperspectralAnalyzer and of the satellite provider *)

\* np.where(den != 0, num / den, 0): one element, not clipped
WhereRatio(num, den) == IF den # 0 THEN Rat(num, den) ELSE <<0, 1>>

RECURSIVE SeqMin(_)
SeqMin(s) ==
    IF Len(s) = 1 THEN s[1]
    ELSE LET m == SeqMin(Tail(s)) IN IF RLt(Head(s), m) THEN Head(s) ELSE m

RECURSIVE SeqMax(_)
SeqMax(s) ==
    IF Len(s) = 1 THEN s[1]
    ELSE LET m == SeqMax(Tail(s)) IN IF RGt(Head(s), m) THEN Head(s) ELSE m

\* get_stats (std and median are not carried)
get_stats(values) ==
    [mean |-> Mean(values), min |-> SeqMin(values), max |-> SeqMax(values),
     values |-> values]

\* the common shape of four arrays under numpy broadcasting, -1 on error
BroadcastLen4(a, b, c, d) ==
    LET ls == {Len(a), Len(b), Len(c), Len(d)} \ {1}
    IN  IF ls = {} THEN 1
        ELSE IF Cardinality(ls) = 1 THEN CHOOSE n \in ls : TRUE
        ELSE -1

\* HyperspectralAnalyzer.calculate_spectral_indices.  An empty red or nir
\* raises ValueError; a shape mismatch raises in numpy; an empty result
\* raises in np.min: each is caught and {} returned.
calculate_spectral_indices(spectral_data, real_ndvi) ==
    LET red == Get(spectral_data, "red")
        green == Get(spectral_data, "green")
        nir == Get(spectral_data, "nir")
        swir == Get(spectral_data, "swir")
        n == BroadcastLen4(red, green, nir, swir)
    IN  IF Len(red) = 0 \/ Len(nir) = 0 THEN EmptyDict
        ELSE IF n <= 0 THEN EmptyDict
        ELSE
        LET ndvi == IF real_ndvi # NoNumber
                    THEN [i \in 1..Len(red) |-> real_ndvi]
                    ELSE [i \in 1..n |->
                            WhereRatio(At(nir, i) - At(red, i), At(nir, i) + At(red, i))]
            ndwi == [i \in 1..n |->
                        WhereRatio(At(nir, i) - At(swir, i), At(nir, i) + At(swir, i))]
            mndwi == [i \in 1..n |->
                        WhereRatio(At(green, i) - At(swir, i), At(green, i) + At(swir, i))]
            ndsi == [i \in 1..n |->
                        WhereRatio(At(swir, i) - At(green, i), At(swir, i) + At(green, i))]
            red_edge_ndvi == [i \in 1..n |->
                        WhereRatio(11 * At(nir, i) - 9 * At(red, i),
                                   11 * At(nir, i) + 9 * At(red, i))]
        IN  [ndvi |-> get_stats(ndvi), ndwi |-> get_stats(ndwi),
             mndwi |-> get_stats(mndwi), ndsi |-> get_stats(ndsi),
             red_edge_ndvi |-> get_stats(red_edge_ndvi)]

\* RealSatelliteDataProvider._calculate_indices_from_bands: ndsi is a copy
\* of mndwi.  np.mean of an empty array is nan.
MeanOrNan(values) == IF Len(values) = 0 THEN NaN ELSE Mean(values)

\* bands[k] of an absent key raises KeyError, caught as every exception is
calculate_indices_from_bands(bands) ==
    LET red == Get(bands, "red")
        green == Get(bands, "green")
        nir == Get(bands, "nir")
        swir == Get(bands, "swir")
        n1 == BroadcastLen(nir, red)
        n2 == BroadcastLen(nir, swir)
        n3 == BroadcastLen(green, swir)
    IN  IF {"red", "green", "nir", "swir"} \ DOMAIN bands # {} THEN EmptyDict
        ELSE IF n1 < 0 \/ n2 < 0 \/ n3 < 0 THEN EmptyDict
        ELSE
        LET ndvi == [i \in 1..n1 |->
                        WhereRatio(At(nir, i) - At(red, i), At(nir, i) + At(red, i))]
            ndwi == [i \in 1..n2 |->
                        WhereRatio(At(nir, i) - At(swir, i), At(nir, i) + At(swir, i))]
            mndwi == [i \in 1..n3 |->
                        WhereRatio(At(green, i) - At(swir, i), At(green, i) + At(swir, i))]
            ndsi == mndwi
        IN  [ndvi |-> [mean |-> MeanOrNan(ndvi), values |-> ndvi],
             ndwi |-> [mean |-> MeanOrNan(ndwi), values |-> ndwi],
             mndwi |-> [mean |-> MeanOrNan(mndwi), values |-> mndwi],
             ndsi |-> [mean |-> MeanOrNan(ndsi), values |-> ndsi]]

-----------------------------------------------------------------------------
(* Interpretation and land-cover classification (ndvi.py) *)

\* Python round(x, digits) with scale = 10^digits, ties to even
\* round() hands nan and the infinities back
RoundTo(x, scale) ==
    IF x[2] = 0 THEN x
    ELSE
    LET num == x[1] * scale
        q == num \div x[2]
        r2 == 2 * (num - q * x[2])
    IN  Rat(IF r2 > x[2] \/ (r2 = x[2] /\ q % 2 = 1) THEN q + 1 ELSE q, scale)

Max2(a, b) == IF a > b THEN a ELSE b

\* the except branch of the three interpret functions: taken when the
\* comparisons raise, which they do for None (TypeError) and for no float
InterpretationError(value_key, score_key, value) ==
    (value_key :> value) @@ (score_key :> 50)
        @@ [status |-> "Unknown", confidence |-> 50]

\* mutant: the cascade with inclusive upper bounds (<= in place of <)
interpret_ndvi_inclusive(ndvi_value) ==
    LET r == IF RLt(ndvi_value, <<0, 1>>) THEN [status |-> "Poor", health_score |-> 0]
             ELSE IF RLe(ndvi_value, Tenths(2)) THEN [status |-> "Poor", health_score |-> 20]
             ELSE IF RLe(ndvi_value, Tenths(4)) THEN [status |-> "Moderate", health_score |-> 50]
             ELSE IF RLe(ndvi_value, Tenths(6)) THEN [status |-> "Good", health_score |-> 75]
             ELSE [status |-> "Excellent", health_score |-> 90]
    IN  [ndvi_value |-> ndvi_value,
         status |-> r.status,
         health_score |-> r.health_score,
         confidence |-> Min2(95, Max2(60, r.health_score))]

interpret_ndvi(ndvi_value) ==
    IF ndvi_value = NoNumber
    THEN InterpretationError("ndvi_value", "health_score", ndvi_value)
    ELSE
    LET r == IF RLt(ndvi_value, <<0, 1>>) THEN [status |-> "Poor", health_score |-> 0]
             ELSE IF RLt(ndvi_value, Tenths(2)) THEN [status |-> "Poor", health_score |-> 20]
             ELSE IF RLt(ndvi_value, Tenths(4)) THEN [status |-> "Moderate", health_score |-> 50]
             ELSE IF RLt(ndvi_value, Tenths(6)) THEN [status |-> "Good", health_score |-> 75]
             ELSE [status |-> "Excellent", health_score |-> 90]
    IN  [ndvi_value |-> RoundTo(ndvi_value, 1000),
         status |-> r.status,
         health_score |-> r.health_score,
         confidence |-> Min2(95, Max2(60, r.health_score))]

\* land_cover_map: label number to name
LandCoverName(l) ==
    CASE l = 0 -> "Unknown"
      [] l = 1 -> "Water"
      [] l = 2 -> "Snow/Ice"
      [] l = 3 -> "Dense Vegetation"
      [] l = 4 -> "Sparse Vegetation"
      [] l = 5 -> "Bare Soil/Rock"
      [] l = 6 -> "Urban/Built-up"

\* mutant: the vegetation rules tried before the water rule
ClassifyPixel_vegetation_first(ndvi, ndwi, mndwi, ndsi) ==
    IF RGt(ndsi, Tenths(4)) THEN 2
    ELSE IF RGt(ndvi, Tenths(6)) THEN 3
    ELSE IF RGt(mndwi, Tenths(3)) \/ RGt(ndwi, Tenths(3)) THEN 1
    ELSE IF RGt(ndvi, Tenths(2)) THEN 4
    ELSE IF RLt(ndvi, Tenths(-1)) THEN 6
    ELSE 5

\* mutant: the water rule tried before the snow rule
ClassifyPixel_water_first(ndvi, ndwi, mndwi, ndsi) ==
    IF RGt(mndwi, Tenths(3)) \/ RGt(ndwi, Tenths(3)) THEN 1
    ELSE IF RGt(ndsi, Tenths(4)) THEN 2
    ELSE IF RGt(ndvi, Tenths(6)) THEN 3
    ELSE IF RGt(ndvi, Tenths(2)) THEN 4
    ELSE IF RLt(ndvi, Tenths(-1)) THEN 6
    ELSE 5

\* the per-pixel cascade of create_index_stack_analysis
ClassifyPixel(ndvi, ndwi, mndwi, ndsi) ==
    IF RGt(ndsi, Tenths(4)) THEN 2
    ELSE IF RGt(mndwi, Tenths(3)) \/ RGt(ndwi, Tenths(3)) THEN 1
    ELSE IF RGt(ndvi, Tenths(6)) THEN 3
    ELSE IF RGt(ndvi, Tenths(2)) THEN 4
    ELSE IF RLt(ndvi, Tenths(-1)) THEN 6
    ELSE 5

SetMin(S) == CHOOSE m \in S : \A x \in S : m <= x

\* mutant: the statistics list all seven labels, those without a pixel too
create_index_stack_analysis_all_labels(indices) ==
    LET get(k) == Get(indices, k)
        lens == {Len(get(k)) : k \in IndexNames} \ {0}
    IN  IF lens = {}
        THEN \* min() of an empty list raises ValueError, caught at the end
             [error |-> "Failed to create index stack analysis: min() arg is an empty sequence"]
        ELSE
        LET min_length == SetMin(lens)
            arr(k, fill) == IF Len(get(k)) > 0 THEN SubSeq(get(k), 1, min_length)
                            ELSE [i \in 1..min_length |-> fill]
            ndvi == arr("ndvi", Tenths(5))
            ndwi == arr("ndwi", <<0, 1>>)
            mndwi == arr("mndwi", <<0, 1>>)
            ndsi == arr("ndsi", <<0, 1>>)
            land_cover == [i \in 1..min_length |->
                              ClassifyPixel(ndvi[i], ndwi[i], mndwi[i], ndsi[i])]
            count(l) == Cardinality({i \in 1..min_length : land_cover[i] = l})
            total_pixels == min_length
            labels == 0..6
            pct(l) == RoundTo(Rat(count(l) * 100, total_pixels), 10)
            \* max() keeps the first maximal entry in insertion (label) order
            dominant == CHOOSE l \in labels :
                            /\ \A m \in labels : RLe(pct(m), pct(l))
                            /\ \A m \in labels : (m < l) => RLt(pct(m), pct(l))
        IN  [land_cover |-> land_cover,
             land_cover_stats |->
                 [nm \in {LandCoverName(l) : l \in labels} |->
                     LET l == CHOOSE k \in labels : LandCoverName(k) = nm
                     IN  [percentage |-> pct(l), pixel_count |-> count(l)]],
             index_stats |->
                 [ndvi |-> RoundTo(Mean(ndvi), 1000), ndwi |-> RoundTo(Mean(ndwi), 1000),
                  mndwi |-> RoundTo(Mean(mndwi), 1000), ndsi |-> RoundTo(Mean(ndsi), 1000)],
             total_pixels |-> total_pixels,
             dominant_land_cover |-> LandCoverName(dominant)]

create_index_stack_analysis(indices) ==
    LET get(k) == Get(indices, k)
        lens == {Len(get(k)) : k \in IndexNames} \ {0}
    IN  IF lens = {}
        THEN \* min() of an empty list raises ValueError, caught at the end
             [error |-> "Failed to create index stack analysis: min() arg is an empty sequence"]
        ELSE
        LET min_length == SetMin(lens)
            arr(k, fill) == IF Len(get(k)) > 0 THEN SubSeq(get(k), 1, min_length)
                            ELSE [i \in 1..min_length |-> fill]
            ndvi == arr("ndvi", Tenths(5))
            ndwi == arr("ndwi", <<0, 1>>)
            mndwi == arr("mndwi", <<0, 1>>)
            ndsi == arr("ndsi", <<0, 1>>)
            land_cover == [i \in 1..min_length |->
                              ClassifyPixel(ndvi[i], ndwi[i], mndwi[i], ndsi[i])]
            count(l) == Cardinality({i \in 1..min_length : land_cover[i] = l})
            total_pixels == min_length
            labels == {l \in 0..6 : count(l) > 0}
            pct(l) == RoundTo(Rat(count(l) * 100, total_pixels), 10)
            \* max() keeps the first maximal entry in insertion (label) order
            dominant == CHOOSE l \in labels :
                            /\ \A m \in labels : RLe(pct(m), pct(l))
                            /\ \A m \in labels : (m < l) => RLt(pct(m), pct(l))
        IN  [land_cover |-> land_cover,
             land_cover_stats |->
                 [nm \in {LandCoverName(l) : l \in labels} |->
                     LET l == CHOOSE k \in labels : LandCoverName(k) = nm
                     IN  [percentage |-> pct(l), pixel_count |-> count(l)]],
             index_stats |->
                 [ndvi |-> RoundTo(Mean(ndvi), 1000), ndwi |-> RoundTo(Mean(ndwi), 1000),
                  mndwi |-> RoundTo(Mean(mndwi), 1000), ndsi |-> RoundTo(Mean(ndsi), 1000)],
             total_pixels |-> total_pixels,
             dominant_land_cover |-> LandCoverName(dominant)]

RAbs(a) == <<Abs(a[1]), a[2]>>

\* the builtins min and max of two numbers: the first argument stays unless
\* the second is strictly smaller (larger), so a nan in second place loses
RMin(a, b) == IF RLt(b, a) THEN b ELSE a

RMax(a, b) == IF RGt(b, a) THEN b ELSE a

\* min(95, max(60, abs(value) * 100))
AbsConfidence(value) ==
    LET scaled == IF value[2] = 0 THEN RAbs(value)
                  ELSE Rat(Abs(value[1]) * 100, value[2])
    IN  RMin(<<95, 1>>, RMax(<<60, 1>>, scaled))

interpret_ndwi(ndwi_value) ==
    IF ndwi_value = NoNumber
    THEN InterpretationError("ndwi_value", "water_score", ndwi_value)
    ELSE
    LET r == IF RGt(ndwi_value, Tenths(3))
                THEN [status |-> "High Water Content", water_score |-> 90]
             ELSE IF RGt(ndwi_value, Tenths(1))
                THEN [status |-> "Moderate Water Content", water_score |-> 70]
             ELSE IF RGt(ndwi_value, Tenths(-1))
                THEN [status |-> "Low Water Content", water_score |-> 40]
             ELSE [status |-> "No Water", water_score |-> 10]
    IN  [ndwi_value |-> RoundTo(ndwi_value, 1000),
         status |-> r.status,
         water_score |-> r.water_score,
         confidence |-> AbsConfidence(ndwi_value)]

interpret_ndsi(ndsi_value) ==
    IF ndsi_value = NoNumber
    THEN InterpretationError("ndsi_value", "snow_score", ndsi_value)
    ELSE
    LET r == IF RGt(ndsi_value, Tenths(4))
                THEN [status |-> "Snow/Ice Present", snow_score |-> 90]
             ELSE IF RGt(ndsi_value, Tenths(1))
                THEN [status |-> "Possible Snow/Ice", snow_score |-> 60]
             ELSE IF RGt(ndsi_value, Tenths(-1))
                THEN [status |-> "No Snow", snow_score |-> 20]
             ELSE [status |-> "Vegetation/Water", snow_score |-> 5]
    IN  [ndsi_value |-> RoundTo(ndsi_value, 1000),
         status |-> r.status,
         snow_score |-> r.snow_score,
         confidence |-> AbsConfidence(ndsi_value)]

BandNames == {"red", "green", "nir", "swir"}

\* len(next(iter(data.values()))) if data else 100; the model's bundles keep
\* their present arrays at one length, and 100 is capped at MaxPixels
SampleCount(data) ==
    IF DOMAIN data = {} THEN MaxPixels
    ELSE Len(data[CHOOSE k \in DOMAIN data : TRUE])

\* generate_comprehensive_spectral_analysis; `synthetic` is the outcome of
\* the np.random draws taken when no index could be computed.  The plots
\* are opaque and not carried.
generate_comprehensive_spectral_analysis(data, synthetic) ==
    LET computed == calculate_all_indices(data)
        indices == IF DOMAIN computed = {} THEN synthetic ELSE computed
        present == {k \in DOMAIN indices : Len(indices[k]) > 0}
        land_cover_analysis == create_index_stack_analysis(indices)
    IN  [indices_stats |->
            [k \in present |->
                [mean |-> RoundTo(Mean(indices[k]), 1000),
                 min |-> RoundTo(SeqMin(indices[k]), 1000),
                 max |-> RoundTo(SeqMax(indices[k]), 1000),
                 count |-> Len(indices[k])]],
         interpretations |->
            [k \in present \ {"mndwi"} |->
                CASE k = "ndvi" -> interpret_ndvi(Mean(indices[k]))
                  [] k = "ndwi" -> interpret_ndwi(Mean(indices[k]))
                  [] k = "ndsi" -> interpret_ndsi(Mean(indices[k]))],
         land_cover_analysis |-> land_cover_analysis,
         summary |->
            [total_pixels_analyzed |-> Len(Get(indices, "ndvi")),
             indices_calculated |-> DOMAIN indices,
             dominant_land_cover |->
                IF "dominant_land_cover" \in DOMAIN land_cover_analysis
                THEN land_cover_analysis.dominant_land_cover ELSE "Unknown"],
         synthetic |-> DOMAIN computed = {}]

-----------------------------------------------------------------------------
(* Inputs of the index engine *)

\* pixels as reflectance in hundredths: the two pixels of the documented
\* end-to-end sample, a dark pixel, pixels with values below 0 and above 1
\* (inputs are not pre-clamped), and a snow-like pixel
SamplePixels ==
    { [red |-> 5,   green |-> 7,   nir |-> 60,  swir |-> 10],
      [red |-> 6,   green |-> 8,   nir |-> 70,  swir |-> 12],
      [red |-> 0,   green |-> 0,   nir |-> 0,   swir |-> 0],
      [red |-> -20, green |-> -20, nir |-> 20,  swir |-> 20],
      [red |-> -20, green |-> 80,  nir |-> 80,  swir |-> -20],
      [red |-> 50,  green |-> 80,  nir |-> 50,  swir |-> 20],
      [red |-> 150, green |-> 20,  nir |-> 300, swir |-> 80] }

BandSets ==
    { BandNames, {}, {"red", "nir"}, {"green", "swir"}, {"nir", "swir"}, {"red"} }

PixelSeqs(S) == UNION { [1..n -> S] : n \in 1..MaxPixels }

Bundle(px, present) == [b \in present |-> [i \in 1..Len(px) |-> px[i][b]]]

Bundles == { Bundle(px, present) : px \in PixelSeqs(SamplePixels), present \in BandSets }

\* index values handed to the classifier directly, around its thresholds
IndexPixels ==
    { [ndvi |-> Tenths(v), ndwi |-> Tenths(w[1]), mndwi |-> Tenths(w[2]), ndsi |-> Tenths(s)] :
        v \in {-2, -1, 2, 6, 8}, w \in {<<0, 0>>, <<3, 3>>, <<5, 0>>, <<0, 5>>}, s \in {4, 5} }

IndexSets ==
    { IndexNames, {}, IndexNames \ {"ndvi"}, IndexNames \ {"ndsi"}, {"ndvi"}, {"ndvi", "ndwi"} }

IndexBundles == { Bundle(px, present) : px \in PixelSeqs(IndexPixels), present \in IndexSets }

\* outcomes of the random draws of the synthetic branch
SyntheticPixels ==
    { [ndvi |-> Tenths(7), ndwi |-> Tenths(0), mndwi |-> Tenths(-1), ndsi |-> Tenths(-2)],
      [ndvi |-> Tenths(3), ndwi |-> Tenths(4), mndwi |-> Tenths(0), ndsi |-> Tenths(-2)] }

SyntheticDraws(data) ==
    IF DOMAIN calculate_all_indices(data) # {} THEN { EmptyDict }
    ELSE { Bundle(px, IndexNames) : px \in [1..SampleCount(data) -> SyntheticPixels] }

\* scalars handed to interpret_ndvi directly, in hundredths
NdviValues == { Rat(k, 100) : k \in {-100, -50, -1, 0, 1, 19, 20, 21, 39, 40, 41, 59, 60, 61, 85, 100} }

\* floats that are not finite
NonFinite == {NaN, PosInf, NegInf}

\* scalars handed to interpret_ndwi and interpret_ndsi, around their
\* thresholds, in hundredths
WaterSnowValues == { Rat(k, 100) : k \in {-100, -11, -10, -9, 9, 10, 11, 30, 31, 40, 41, 100} }

\* a real NDVI passed to the analyzer, or none
RealNdviValues == { NoNumber, Tenths(7), Rat(13, 10) }

-----------------------------------------------------------------------------------------------------------------------------------------------------
(* Specification of the index engine: the initial state draws an input,    *)
(* and one step applies one function of the engine to it and records the   *)
(* result                                                                  *)

ModelIdle ==
    /\ inst = <<>>
    /\ fs = <<>>
    /\ loaded_model = NoInstance
    /\ scaler = None
    /\ pc = <<>>
    /\ real_model = <<>>
    /\ train_runs = 0
    /\ db = <<>>

ModelUnchanged == UNCHANGED <<inst, fs, loaded_model, scaler, pc, real_model, train_runs, db>>

\* the function `name` is applied to the drawn input
Applied(name, result) ==
    /\ call = "init"
    /\ call' = name
    /\ ret' = result
    /\ UNCHANGED arg

InputsIndex ==
    [kind : {"bands"}, data : Bundles]
        \cup [kind : {"indices"}, indices : IndexBundles]
        \cup [kind : {"scalar"}, value : NdviValues \cup WaterSnowValues \cup NonFinite]

InitIndex ==
    /\ call = "init"
    /\ arg \in InputsIndex
    /\ ret = <<>>
    /\ ModelIdle

CalculateNdvi ==
    /\ arg.kind = "bands"
    /\ Applied("calculate_ndvi", calculate_ndvi(Get(arg.data, "red"), Get(arg.data, "nir")))
    /\ ModelUnchanged

CalculateNdwi ==
    /\ arg.kind = "bands"
    /\ Applied("calculate_ndwi", calculate_ndwi(Get(arg.data, "nir"), Get(arg.data, "swir")))
    /\ ModelUnchanged

CalculateMndwi ==
    /\ arg.kind = "bands"
    /\ Applied("calculate_mndwi", calculate_mndwi(Get(arg.data, "green"), Get(arg.data, "swir")))
    /\ ModelUnchanged

CalculateNdsi ==
    /\ arg.kind = "bands"
    /\ Applied("calculate_ndsi", calculate_ndsi(Get(arg.data, "green"), Get(arg.data, "swir")))
    /\ ModelUnchanged

CalculateAllIndices ==
    /\ arg.kind = "bands"
    /\ Applied("calculate_all_indices", calculate_all_indices(arg.data))
    /\ ModelUnchanged

AnalyzerCalculateSpectralIndices ==
    /\ arg.kind = "bands"
    /\ \E real_ndvi \in RealNdviValues :
        Applied("calculate_spectral_indices",
                [real_ndvi |-> real_ndvi,
                 indices |-> calculate_spectral_indices(arg.data, real_ndvi)])
    /\ ModelUnchanged

ProviderCalculateIndicesFromBands ==
    /\ arg.kind = "bands"
    /\ Applied("_calculate_indices_from_bands", calculate_indices_from_bands(arg.data))
    /\ ModelUnchanged

InterpretNdvi ==
    /\ arg.kind = "scalar"
    /\ Applied("interpret_ndvi", interpret_ndvi(arg.value))
    /\ ModelUnchanged

InterpretNdwi ==
    /\ arg.kind = "scalar"
    /\ Applied("interpret_ndwi", interpret_ndwi(arg.value))
    /\ ModelUnchanged

InterpretNdsi ==
    /\ arg.kind = "scalar"
    /\ Applied("interpret_ndsi", interpret_ndsi(arg.value))
    /\ ModelUnchanged

CreateIndexStackAnalysis ==
    /\ arg.kind = "indices"
    /\ Applied("create_index_stack_analysis", create_index_stack_analysis(arg.indices))
    /\ ModelUnchanged

GenerateComprehensiveSpectralAnalysis ==
    /\ arg.kind = "bands"
    /\ \E synthetic \in SyntheticDraws(arg.data) :
        Applied("generate_comprehensive_spectral_analysis",
                generate_comprehensive_spectral_analysis(arg.data, synthetic))
    /\ ModelUnchanged

NextIndex ==
    \/ CalculateNdvi
    \/ CalculateNdwi
    \/ CalculateMndwi
    \/ CalculateNdsi
    \/ CalculateAllIndices
    \/ AnalyzerCalculateSpectralIndices
    \/ ProviderCalculateIndicesFromBands
    \/ InterpretNdvi
    \/ InterpretNdwi
    \/ InterpretNdsi
    \/ CreateIndexStackAnalysis
    \/ GenerateComprehensiveSpectralAnalysis

SpecIndex == InitIndex /\ [][NextIndex]_vars

-----------------------------------------------------------------------------
(* Claims about the index engine, checked under SpecIndex *)

InUnit(x) == RLe(<<-1, 1>>, x) /\ RLe(x, <<1, 1>>)

AllInUnit(values) == \A i \in DOMAIN values : InUnit(values[i])

StandaloneCalls == {"calculate_ndvi", "calculate_ndwi", "calculate_mndwi", "calculate_ndsi"}

\* the two bands a standalone index function takes, as <<minuend, subtrahend>>
\* of the numerator in the documented formula of the index
BandsOf(name) ==
    CASE name \in {"calculate_ndvi", "ndvi"}   -> <<"nir", "red">>
      [] name \in {"calculate_ndwi", "ndwi"}   -> <<"nir", "swir">>
      [] name \in {"calculate_mndwi", "mndwi"} -> <<"green", "swir">>
      [] name \in {"calculate_ndsi", "ndsi"}   -> <<"swir", "green">>

HasBands(d, name) == {BandsOf(name)[1], BandsOf(name)[2]} \subseteq DOMAIN d

AnalyzerComputed ==
    /\ call = "calculate_spectral_indices"
    /\ DOMAIN arg.data = BandNames
    /\ ret.real_ndvi = NoNumber

\* C1: every element of every index the engine returns for equal-length
\* non-empty bands lies in [-1, 1], for the standalone functions and for the
\* analyzer's calculate_spectral_indices alike
C1_IndexWithinUnitRange ==
    /\ (call \in StandaloneCalls /\ HasBands(arg.data, call)) => AllInUnit(ret)
    /\ AnalyzerComputed =>
          \A k \in DOMAIN ret.indices : AllInUnit(ret.indices[k].values)

\* C2: at every pixel whose two band values sum to exactly zero the index
\* element is 0, for each standalone function and for the analyzer
C2_ZeroDenominatorGivesZero ==
    /\ (call \in StandaloneCalls /\ HasBands(arg.data, call)) =>
          \A i \in DOMAIN ret :
              (arg.data[BandsOf(call)[1]][i] + arg.data[BandsOf(call)[2]][i] = 0)
                  => ret[i] = <<0, 1>>
    /\ AnalyzerComputed =>
          \A k \in IndexNames : \A i \in DOMAIN ret.indices[k].values :
              (arg.data[BandsOf(k)[1]][i] + arg.data[BandsOf(k)[2]][i] = 0)
                  => ret.indices[k].values[i] = <<0, 1>>

\* the snow index of one pixel as the specification writes it, clamped
SwirMinusGreen(d, i) == Clip(Rat(d.swir[i] - d.green[i], d.swir[i] + d.green[i]))

\* the same quotient with the bands exchanged, clamped and not clamped
GreenMinusSwirRaw(d, i) == Rat(d.green[i] - d.swir[i], d.green[i] + d.swir[i])

GreenMinusSwir(d, i) == Clip(GreenMinusSwirRaw(d, i))

SnowBands(d) == {"green", "swir"} \subseteq DOMAIN d

NonZeroSnowPixels(d) == {i \in DOMAIN d.green : d.swir[i] + d.green[i] # 0}

\* C3 as claimed: at every pixel with swir + green # 0 the NDSI of
\* calculate_ndsi, of calculate_all_indices, of the analyzer and of the
\* satellite provider's helper is (swir - green) / (swir + green) clamped
C3_NdsiIsSwirMinusGreen ==
    /\ (call = "calculate_ndsi" /\ SnowBands(arg.data)) =>
          \A i \in NonZeroSnowPixels(arg.data) : ret[i] = SwirMinusGreen(arg.data, i)
    /\ (call = "calculate_all_indices" /\ SnowBands(arg.data)) =>
          \A i \in NonZeroSnowPixels(arg.data) : ret.ndsi[i] = SwirMinusGreen(arg.data, i)
    /\ AnalyzerComputed =>
          \A i \in NonZeroSnowPixels(arg.data) :
              ret.indices.ndsi.values[i] = SwirMinusGreen(arg.data, i)
    /\ (call = "_calculate_indices_from_bands" /\ DOMAIN arg.data = BandNames) =>
          \A i \in NonZeroSnowPixels(arg.data) :
              ret.ndsi.values[i] = SwirMinusGreen(arg.data, i)

\* C3 as amended: at every pixel with swir + green # 0, calculate_ndsi and
\* calculate_all_indices return (green - swir) / (green + swir) clamped to
\* [-1, 1], which is that pixel's MNDWI; the provider's helper returns the same
\* quotient, its own MNDWI, unclamped; only the analyzer returns
\* (swir - green) / (swir + green), the negation of its MNDWI, unclamped
C3_NdsiPerModule ==
    /\ (call = "calculate_ndsi" /\ SnowBands(arg.data)) =>
          \A i \in NonZeroSnowPixels(arg.data) : ret[i] = GreenMinusSwir(arg.data, i)
    /\ (call = "calculate_all_indices" /\ SnowBands(arg.data)) =>
          \A i \in NonZeroSnowPixels(arg.data) :
              /\ ret.ndsi[i] = GreenMinusSwir(arg.data, i)
              /\ ret.ndsi[i] = ret.mndwi[i]
    /\ (call = "_calculate_indices_from_bands" /\ DOMAIN arg.data = BandNames) =>
          \A i \in NonZeroSnowPixels(arg.data) :
              /\ ret.ndsi.values[i] = GreenMinusSwirRaw(arg.data, i)
              /\ ret.ndsi.values[i] = ret.mndwi.values[i]
    /\ (call = "calculate_spectral_indices" /\ DOMAIN arg.data = BandNames) =>
          \A i \in NonZeroSnowPixels(arg.data) :
              /\ ret.indices.ndsi.values[i] = RNeg(GreenMinusSwirRaw(arg.data, i))
              /\ ret.indices.ndsi.values[i] = RNeg(ret.indices.mndwi.values[i])

\* C3 witness: calculate_ndsi has returned a non-zero snow index for a pixel
\* whose green and swir differ and do not sum to zero
C3_Witness ==
    /\ call = "calculate_ndsi"
    /\ SnowBands(arg.data)
    /\ \E i \in NonZeroSnowPixels(arg.data) :
          /\ arg.data.green[i] > arg.data.swir[i]
          /\ RGt(ret[i], <<0, 1>>)

\* the documented end-to-end sample
EndToEndSample ==
    [red |-> <<5, 6>>, green |-> <<7, 8>>, nir |-> <<60, 70>>, swir |-> <<10, 12>>]

PipelineOnSample ==
    /\ call = "generate_comprehensive_spectral_analysis"
    /\ arg.data = EndToEndSample

\* C4 as claimed: the pipeline on the sample interprets the NDVI mean as
\* Excellent and classifies both pixels as Dense Vegetation
C4_SampleIsDenseVegetation ==
    PipelineOnSample =>
        /\ ret.interpretations.ndvi.status = "Excellent"
        /\ \A i \in 1..2 :
              LandCoverName(ret.land_cover_analysis.land_cover[i]) = "Dense Vegetation"

\* C4 as amended: the pipeline on the sample interprets the NDVI mean as
\* Excellent and classifies both pixels as Water, because their NDWI (about
\* 0.71) exceeds 0.3 and the water rule precedes the vegetation rules
C4_SampleIsWater ==
    PipelineOnSample =>
        /\ ret.interpretations.ndvi.status = "Excellent"
        /\ \A i \in 1..2 :
              LandCoverName(ret.land_cover_analysis.land_cover[i]) = "Water"
        /\ ret.land_cover_analysis.dominant_land_cover = "Water"
        /\ ret.land_cover_analysis.total_pixels = 2

\* C4 witness: the pipeline has run on the sample and produced a land-cover
\* result for its two pixels
C4_Witness ==
    /\ PipelineOnSample
    /\ ~ret.synthetic
    /\ Len(ret.land_cover_analysis.land_cover) = 2

\* the index values the classifier works on at pixel i: the supplied array,
\* or the neutral constant where the array is absent
PixelValue(k, i) ==
    IF k \in DOMAIN arg.indices THEN arg.indices[k][i]
    ELSE IF k = "ndvi" THEN Tenths(5) ELSE <<0, 1>>

\* the label the documented decision order gives to index values
FirstMatchingRule(ndvi, ndwi, mndwi, ndsi) ==
    LET snow == RGt(ndsi, Tenths(4))
        water == RGt(mndwi, Tenths(3)) \/ RGt(ndwi, Tenths(3))
        dense == RGt(ndvi, Tenths(6))
        sparse == RGt(ndvi, Tenths(2))
        urban == RLt(ndvi, Tenths(-1))
    IN  CASE snow -> "Snow/Ice"
          [] ~snow /\ water -> "Water"
          [] ~snow /\ ~water /\ dense -> "Dense Vegetation"
          [] ~snow /\ ~water /\ ~dense /\ sparse -> "Sparse Vegetation"
          [] ~snow /\ ~water /\ ~dense /\ ~sparse /\ urban -> "Urban/Built-up"
          [] OTHER -> "Bare Soil/Rock"

ClassifierSucceeded ==
    /\ call = "create_index_stack_analysis"
    /\ "land_cover" \in DOMAIN ret

\* C5: every pixel gets the label of the first matching rule in the order
\* snow, water, dense, sparse, urban, bare; a pixel with ndsi > 0.4 is
\* Snow/Ice whatever its other values
C5_FirstMatchWins ==
    ClassifierSucceeded =>
        \A i \in DOMAIN ret.land_cover :
            /\ LandCoverName(ret.land_cover[i]) =
                  FirstMatchingRule(PixelValue("ndvi", i), PixelValue("ndwi", i),
                                    PixelValue("mndwi", i), PixelValue("ndsi", i))
            /\ RGt(PixelValue("ndsi", i), Tenths(4)) =>
                  LandCoverName(ret.land_cover[i]) = "Snow/Ice"

\* C5 witness: a pixel with ndsi = 0.5, ndvi = 0.8 and ndwi = 0.5, which
\* satisfies the snow, water and dense rules at once, was labelled Snow/Ice
C5_Witness ==
    /\ ClassifierSucceeded
    /\ DOMAIN arg.indices = IndexNames
    /\ \E i \in DOMAIN ret.land_cover :
          /\ arg.indices.ndsi[i] = Tenths(5)
          /\ arg.indices.ndvi[i] = Tenths(8)
          /\ arg.indices.ndwi[i] = Tenths(5)
          /\ LandCoverName(ret.land_cover[i]) = "Snow/Ice"

\* C6: interpret_ndvi gives Poor/0 below 0, Poor/20 on [0, 0.2), Moderate/50
\* on [0.2, 0.4), Good/75 on [0.4, 0.6) and Excellent/90 from 0.6 on
C6_NdviCascade ==
    call = "interpret_ndvi" =>
        LET v == arg.value
            is(st, sc) == ret.status = st /\ ret.health_score = sc
        IN  /\ RLt(v, <<0, 1>>) => is("Poor", 0)
            /\ (RGe(v, <<0, 1>>) /\ RLt(v, Tenths(2))) => is("Poor", 20)
            /\ (RGe(v, Tenths(2)) /\ RLt(v, Tenths(4))) => is("Moderate", 50)
            /\ (RGe(v, Tenths(4)) /\ RLt(v, Tenths(6))) => is("Good", 75)
            /\ RGe(v, Tenths(6)) => is("Excellent", 90)

\* C6 witness: interpret_ndvi was applied to exactly 0.4 and answered Good
C6_Witness ==
    /\ call = "interpret_ndvi"
    /\ arg.value = Tenths(4)
    /\ ret.status = "Good"

-----------------------------------------------------------------------------
(* The prediction ensemble: class RealAgriculturalModel (real_model.py) *)

FeatureNames ==
    <<"ndvi", "temperature", "humidity", "soil_moisture", "soil_ph",
      "precipitation", "solar_radiation", "day_of_year", "latitude">>

\* the fitted ensemble {'rf_model', 'gb_model', 'weights': {'rf': 0.6, 'gb': 0.4}}
\* with the weights in tenths
Ensemble == [rf_model |-> "RandomForestRegressor", gb_model |-> "gb_model",
             weights |-> [rf |-> 6, gb |-> 4]]

\* self.model is "None", "ensemble" (the Ensemble above) or "legacy" (an
\* object without 'rf_model' that a foreign file put there)

\* __init__; of model_info the version and whether train_model has added its
\* metrics are kept
RealAgriculturalModel ==
    [model |-> "None", scaler |-> "None", feature_names |-> FeatureNames,
     model_info |-> [version |-> "2.0", metrics |-> FALSE]]

\* what a path holds: nothing, a pickle that is not a dict, or a dict
Absent == [kind |-> "absent"]
ForeignObject == [kind |-> "object"]
DictFile(d) == [kind |-> "dict", data |-> d]
LegacyDict == DictFile([model |-> "legacy"])

\* model_data of save_model
ModelData(self) ==
    [model |-> self.model, scaler |-> self.scaler,
     feature_names |-> self.feature_names, model_info |-> self.model_info]

\* save_model: joblib.dump writes the file, or raises and the exception is
\* only logged
save_model(self, files, path, dump_ok) ==
    IF dump_ok THEN [files EXCEPT ![path] = DictFile(ModelData(self))] ELSE files

\* train_model: fits scaler and ensemble, saves when a path is given, and
\* only then adds the metrics to model_info
train_model(self, files, save_path, dump_ok) ==
    LET fitted == [self EXCEPT !.scaler = "StandardScaler", !.model = "ensemble"]
    IN  [self |-> [fitted EXCEPT !.model_info.metrics = TRUE],
         files |-> IF save_path = None THEN files
                   ELSE save_model(fitted, files, save_path, dump_ok)]

\* load_model: the four assignments in order; the first failing lookup
\* leaves the earlier assignments in place and returns False
RealAgriculturalModel_load_model(self, content) ==
    IF content.kind # "dict" \/ "model" \notin DOMAIN content.data
    THEN [self |-> self, ok |-> FALSE]
    ELSE LET d == content.data
             m == [self EXCEPT !.model = d.model]
         IN  IF "scaler" \notin DOMAIN d
             THEN [self |-> m, ok |-> FALSE]
             ELSE [self |->
                      [m EXCEPT !.scaler = d.scaler,
                                !.feature_names =
                                    IF "feature_names" \in DOMAIN d
                                    THEN d.feature_names ELSE self.feature_names,
                                !.model_info =
                                    IF "model_info" \in DOMAIN d
                                    THEN d.model_info ELSE self.model_info],
                   ok |-> TRUE]

\* the neutral padding value 0.5
Half == Rat(1, 2)

\* mutant: short rows are padded with 0 in place of 0.5
NormalizeRow_zero_padding(row, n) ==
    IF Len(row) < n THEN row \o [k \in 1..(n - Len(row)) |-> <<0, 1>>]
    ELSE IF Len(row) > n THEN SubSeq(row, 1, n)
    ELSE row

\* one row brought to len(self.feature_names) columns
NormalizeRow(row, n) ==
    IF Len(row) < n THEN row \o [k \in 1..(n - Len(row)) |-> Half]
    ELSE IF Len(row) > n THEN SubSeq(row, 1, n)
    ELSE row

\* mutant: the cut points taken as strict lower bounds (> in place of >=)
ScoreStatus_strict(score) ==
    IF RGt(score, <<80, 1>>) THEN [status |-> "Excellent", confidence |-> 95]
    ELSE IF RGt(score, <<70, 1>>) THEN [status |-> "Good", confidence |-> 90]
    ELSE IF RGt(score, <<50, 1>>) THEN [status |-> "Moderate", confidence |-> 85]
    ELSE IF RGt(score, <<30, 1>>) THEN [status |-> "Poor", confidence |-> 80]
    ELSE [status |-> "Critical", confidence |-> 75]

\* status and confidence of an ensemble score
ScoreStatus(score) ==
    IF RGe(score, <<80, 1>>) THEN [status |-> "Excellent", confidence |-> 95]
    ELSE IF RGe(score, <<70, 1>>) THEN [status |-> "Good", confidence |-> 90]
    ELSE IF RGe(score, <<50, 1>>) THEN [status |-> "Moderate", confidence |-> 85]
    ELSE IF RGe(score, <<30, 1>>) THEN [status |-> "Poor", confidence |-> 80]
    ELSE [status |-> "Critical", confidence |-> 75]

\* the dict predict returns from its except branch
PredictionError(message) ==
    [error |-> message, health_score |-> <<50, 1>>, status |-> "Unknown",
     confidence |-> 50]

\* a cell that is no number (None or text from the request's JSON) is
\* written NoNumber; the scaler's transform cannot convert it and raises
HasNonNumeric(features) ==
    \E i \in DOMAIN features : \E j \in DOMAIN features[i] : features[i][j] = NoNumber

\* predict on a 2-D array `features` (a sequence of rows); rf_pred and gb_pred
\* are what the two fitted regressors answer for the rows
predict(self, features, rf_pred, gb_pred) ==
    IF self.model = "None"
    THEN PredictionError("Model not trained. Call train_model() first.")
    ELSE IF HasNonNumeric(features)
    THEN PredictionError("could not convert string to float")
    ELSE IF self.model # "ensemble"
    THEN PredictionError("'rf_model'")
    ELSE
        LET n == Len(self.feature_names)
            rows == [i \in DOMAIN features |-> NormalizeRow(features[i], n)]
            weights == Ensemble.weights
            result(i) ==
                LET score == Rat(weights.rf * rf_pred[i] + weights.gb * gb_pred[i], 10)
                    sc == ScoreStatus(score)
                IN  [health_score |-> RoundTo(score, 100),
                     status |-> sc.status,
                     confidence |-> sc.confidence,
                     ndvi_value |-> IF n > 0 THEN RoundTo(rows[i][1], 1000) ELSE Half,
                     model_type |-> "Real Agricultural Model",
                     prediction_quality |->
                         IF sc.confidence > 85 THEN "High" ELSE "Medium"]
            results == [i \in DOMAIN features |-> result(i)]
        IN  IF Len(results) = 1 THEN results[1] ELSE results

-----------------------------------------------------------------------------
(* Callers of the class: any interleaving of its four methods *)

RealModelPath == "/app/model/real_crop_model.joblib"
LegacyModelPath == "/app/model/model.joblib"
Paths == {RealModelPath, LegacyModelPath}

\* the test row of the module's __main__ block, followed by two surplus columns
WideRow ==
    <<Rat(75, 100), <<25, 1>>, <<60, 1>>, <<45, 1>>, Rat(68, 10), <<20, 1>>,
      <<22, 1>>, <<150, 1>>, <<40, 1>>, <<7, 1>>, <<8, 1>>>>

Row(k) == SubSeq(WideRow, 1, k)

\* row widths the callers pass: the legacy five features, the nine of the
\* model, and more than nine
CallerWidths == {5, 9, 11}

\* answers of the two fitted regressors for a row
CallerScores == {<<25, 25>>, <<85, 60>>}

InitModel ==
    /\ call = "init"
    /\ arg = <<>>
    /\ ret = <<>>
    /\ inst = [i \in 1..NInst |-> RealAgriculturalModel]
    /\ fs = [p \in Paths |-> IF p = LegacyModelPath THEN LegacyDict ELSE Absent]
    /\ loaded_model = NoInstance
    /\ scaler = None
    /\ pc = <<>>
    /\ real_model = <<>>
    /\ train_runs = 0
    /\ db = <<>>

LoaderUnchanged == UNCHANGED <<loaded_model, scaler, pc, real_model, train_runs, db>>

TrainModel ==
    \E i \in 1..NInst, save_path \in Paths \cup {None}, dump_ok \in BOOLEAN :
        /\ save_path = None => dump_ok
        /\ LET r == train_model(inst[i], fs, save_path, dump_ok)
           IN  /\ inst' = [inst EXCEPT ![i] = r.self]
               /\ fs' = r.files
        /\ call' = "train_model"
        /\ arg' = [self |-> i, save_path |-> save_path]
        /\ ret' = [n_features |-> Len(inst[i].feature_names)]
        /\ LoaderUnchanged

Predict ==
    \E i \in 1..NInst, k \in CallerWidths, s \in CallerScores :
        /\ call' = "predict"
        /\ arg' = [self |-> i, features |-> <<Row(k)>>, rf_pred |-> <<s[1]>>,
                   gb_pred |-> <<s[2]>>]
        /\ ret' = predict(inst[i], <<Row(k)>>, <<s[1]>>, <<s[2]>>)
        /\ UNCHANGED <<inst, fs>>
        /\ LoaderUnchanged

SaveModel ==
    \E i \in 1..NInst, path \in Paths, dump_ok \in BOOLEAN :
        /\ fs' = save_model(inst[i], fs, path, dump_ok)
        /\ call' = "save_model"
        /\ arg' = [self |-> i, path |-> path]
        /\ ret' = None
        /\ UNCHANGED inst
        /\ LoaderUnchanged

LoadModel ==
    \E i \in 1..NInst, path \in Paths :
        /\ LET r == RealAgriculturalModel_load_model(inst[i], fs[path])
           IN  /\ inst' = [inst EXCEPT ![i] = r.self]
               /\ ret' = r.ok
        /\ call' = "load_model"
        /\ arg' = [self |-> i, path |-> path]
        /\ UNCHANGED fs
        /\ LoaderUnchanged

NextModel == TrainModel \/ Predict \/ SaveModel \/ LoadModel

SpecModel == InitModel /\ [][NextModel]_vars

-----------------------------------------------------------------------------
(* Claims about the ensemble's life cycle *)

Untrained(self) == self.model = "None"

\* C7: predict on an Untrained instance fails with a model-not-trained failure
\* signalled to the caller: the call hands back no prediction result (no
\* health score, status or confidence)
C7_UntrainedPredictFails ==
    (call = "predict" /\ Untrained(inst[arg.self])) =>
        /\ "error" \in DOMAIN ret
        /\ DOMAIN ret \cap {"health_score", "status", "confidence"} = {}

\* C8: an instance whose model is set never returns to the Untrained state,
\* whatever method is called on whatever instance and path
C8_TrainedIsOneWay ==
    [][\A i \in 1..NInst : ~Untrained(inst[i]) => ~Untrained(inst'[i])]_vars

-----------------------------------------------------------------------------
(* The process-wide singleton: model_loader.load_model called by several
   threads, and predict_crop_health reading it *)

Threads == 1..NThreads

\* a file joblib.dump has begun and not finished writing
Truncated == [kind |-> "truncated"]

\* the file an earlier process left behind after create_and_train_real_model
EarlierRunFile ==
    DictFile(ModelData(train_model(RealAgriculturalModel, <<>>, None, TRUE).self))

\* the default row predict_crop_health uses when it is given no features
DefaultFeatures == <<Tenths(6), <<25, 1>>, <<60, 1>>, <<45, 1>>, Rat(65, 10)>>

\* predict_crop_health called with features only (no coordinates): the pair
\* (result, error); `lm` is the instance the singleton refers to, if any
predict_crop_health(lm, instances, features, rf_pred, gb_pred) ==
    IF lm = NoInstance
    THEN [result |-> None, error |-> "Model not loaded"]
    ELSE [result |-> predict(instances[lm],
                             IF features = None THEN <<DefaultFeatures>> ELSE features,
                             rf_pred, gb_pred),
          error |-> None]

InitLoader ==
    /\ call = "init"
    /\ arg = <<>>
    /\ ret = <<>>
    /\ inst = <<>>
    /\ \E c \in {Absent, ForeignObject, EarlierRunFile} :
          fs = [p \in Paths |-> IF p = RealModelPath THEN c ELSE Absent]
    /\ loaded_model = NoInstance
    /\ scaler = None
    /\ pc = [t \in Threads |-> "start"]
    /\ real_model = [t \in Threads |-> NoInstance]
    /\ train_runs = 0
    /\ db = <<>>

Returned(t, value) ==
    /\ call' = "load_model"
    /\ arg' = [thread |-> t]
    /\ ret' = value

NotReturned == UNCHANGED <<call, arg, ret>>

\* if os.path.exists(real_model_path)
CheckRealModelExists(t) ==
    /\ pc[t] = "start"
    /\ pc' = [pc EXCEPT ![t] =
                 IF fs[RealModelPath].kind # "absent" THEN "load" ELSE "create"]
    /\ NotReturned
    /\ UNCHANGED <<inst, fs, loaded_model, scaler, real_model, train_runs, db>>

\* real_model = RealAgriculturalModel(); real_model.load_model(real_model_path)
LoadRealModel(t) ==
    /\ pc[t] = "load"
    /\ LET r == RealAgriculturalModel_load_model(RealAgriculturalModel, fs[RealModelPath])
       IN  /\ inst' = Append(inst, r.self)
           /\ pc' = [pc EXCEPT ![t] = IF r.ok THEN "publish" ELSE "create"]
    /\ real_model' = [real_model EXCEPT ![t] = Len(inst) + 1]
    /\ NotReturned
    /\ UNCHANGED <<fs, loaded_model, scaler, train_runs, db>>

\* create_and_train_real_model up to the end of train_model
CreateAndTrain(t) ==
    /\ pc[t] = "create"
    /\ inst' = Append(inst, train_model(RealAgriculturalModel, fs, None, TRUE).self)
    /\ real_model' = [real_model EXCEPT ![t] = Len(inst) + 1]
    /\ train_runs' = train_runs + 1
    /\ pc' = [pc EXCEPT ![t] = "makedirs"]
    /\ NotReturned
    /\ UNCHANGED <<fs, loaded_model, scaler, db>>

\* os.makedirs(..., exist_ok=True) succeeds
MakedirsOk(t) ==
    /\ pc[t] = "makedirs"
    /\ pc' = [pc EXCEPT ![t] = "dump"]
    /\ NotReturned
    /\ UNCHANGED <<inst, fs, loaded_model, scaler, real_model, train_runs, db>>

\* os.makedirs raises: the exception leaves create_and_train_real_model and is
\* caught by load_model's outer handler, which returns None
MakedirsRaises(t) ==
    /\ pc[t] = "makedirs"
    /\ pc' = [pc EXCEPT ![t] = "failed"]
    /\ Returned(t, NoInstance)
    /\ UNCHANGED <<inst, fs, loaded_model, scaler, real_model, train_runs, db>>

\* joblib.dump starts writing the file
DumpBegins(t) ==
    /\ pc[t] = "dump"
    /\ fs' = [fs EXCEPT ![RealModelPath] = Truncated]
    /\ pc' = [pc EXCEPT ![t] = "dumping"]
    /\ NotReturned
    /\ UNCHANGED <<inst, loaded_model, scaler, real_model, train_runs, db>>

\* joblib.dump raises; save_model logs the error and returns
DumpRaises(t) ==
    /\ pc[t] = "dump"
    /\ pc' = [pc EXCEPT ![t] = "publish"]
    /\ NotReturned
    /\ UNCHANGED <<inst, fs, loaded_model, scaler, real_model, train_runs, db>>

\* joblib.dump finishes writing the file
DumpEnds(t) ==
    /\ pc[t] = "dumping"
    /\ fs' = save_model(inst[real_model[t]], fs, RealModelPath, TRUE)
    /\ pc' = [pc EXCEPT ![t] = "publish"]
    /\ NotReturned
    /\ UNCHANGED <<inst, loaded_model, scaler, real_model, train_runs, db>>

\* loaded_model = real_model; scaler = real_model.scaler; return real_model
Publish(t) ==
    /\ pc[t] = "publish"
    /\ loaded_model' = real_model[t]
    /\ scaler' = inst[real_model[t]].scaler
    /\ pc' = [pc EXCEPT ![t] = "done"]
    /\ Returned(t, real_model[t])
    /\ UNCHANGED <<inst, fs, real_model, train_runs, db>>

\* the row the predict route builds from {"data": {"temperature": ["hot"]}}
NonNumericRow == <<NoNumber>>

\* a request handler calls predict_crop_health(features): with no features
\* (width 0), with a numeric row, or with the non-numeric row (width 1)
PredictCropHealth ==
    \E k \in CallerWidths \cup {0, 1}, s \in CallerScores :
        /\ call' = "predict_crop_health"
        /\ arg' = [features |-> IF k = 0 THEN None
                                ELSE IF k = 1 THEN <<NonNumericRow>>
                                ELSE <<Row(k)>>,
                   rf_pred |-> <<s[1]>>, gb_pred |-> <<s[2]>>]
        /\ ret' = predict_crop_health(loaded_model, inst, arg'.features,
                                      <<s[1]>>, <<s[2]>>)
        /\ UNCHANGED <<inst, fs, loaded_model, scaler, pc, real_model, train_runs, db>>

NextLoader ==
    \/ \E t \in Threads :
          \/ CheckRealModelExists(t)
          \/ LoadRealModel(t)
          \/ CreateAndTrain(t)
          \/ MakedirsOk(t)
          \/ MakedirsRaises(t)
          \/ DumpBegins(t)
          \/ DumpRaises(t)
          \/ DumpEnds(t)
          \/ Publish(t)
    \/ PredictCropHealth

SpecLoader == InitLoader /\ [][NextLoader]_vars

\* C9: concurrent callers of load_model cause at most one training run, and
\* once all of them have returned each holds the instance the singleton
\* refers to, which is fully trained
C9_OneTrainingRunOneInstance ==
    /\ train_runs <= 1
    /\ (\A t \in Threads : pc[t] = "done") =>
          /\ \A t \in Threads : real_model[t] = loaded_model
          /\ inst[loaded_model].model = "ensemble"

-----------------------------------------------------------------------------
(* Pest-risk assessment: HyperspectralAnalyzer.assess_pest_risk
   (hyperspectral_analysis.py).  Risks are exact rationals; the rounding of
   the floating-point sums is not represented. *)

RMul(a, b) == Rat(a[1] * b[1], a[2] * b[2])

Num(k) == <<k, 1>>

Hundredths(k) == Rat(k, 100)

\* dict.get(key, default)
GetOr(d, key, default) == IF key \in DOMAIN d THEN d[key] ELSE default

\* mutant: no extra pest pressure at tropical and subtropical latitudes
_assess_environmental_pest_risk_no_latitude(temp, humidity, crop_type, latitude) ==
    LET t == IF RLe(Num(22), temp) /\ RLe(temp, Num(32)) THEN Tenths(3)
             ELSE IF RGt(temp, Num(35)) \/ RLt(temp, Num(15)) THEN Tenths(1)
             ELSE Tenths(2)
        h == IF RGt(humidity, Num(75)) THEN Tenths(4)
             ELSE IF RLt(humidity, Num(40)) THEN Tenths(3)
             ELSE Tenths(2)
    IN  RMin(RAdd(t, h), Num(1))

_assess_environmental_pest_risk(temp, humidity, crop_type, latitude) ==
    LET t == IF RLe(Num(22), temp) /\ RLe(temp, Num(32)) THEN Tenths(3)
             ELSE IF RGt(temp, Num(35)) \/ RLt(temp, Num(15)) THEN Tenths(1)
             ELSE Tenths(2)
        h == IF RGt(humidity, Num(75)) THEN Tenths(4)
             ELSE IF RLt(humidity, Num(40)) THEN Tenths(3)
             ELSE Tenths(2)
        l == IF RLt(RAbs(latitude), Num(35)) THEN Tenths(2) ELSE Num(0)
    IN  RMin(RAdd(RAdd(t, h), l), Num(1))

_assess_spectral_stress(ndvi_mean, ndvi_std, ndwi_mean) ==
    LET a == IF RLt(ndvi_mean, Tenths(4)) THEN Tenths(4)
             ELSE IF RLt(ndvi_mean, Tenths(6)) THEN Tenths(2)
             ELSE Num(0)
        b == IF RGt(ndvi_std, Hundredths(15)) THEN Tenths(3)
             ELSE IF RGt(ndvi_std, Hundredths(10)) THEN Tenths(2)
             ELSE Num(0)
        c == IF RLt(ndwi_mean, Tenths(2)) THEN Tenths(3) ELSE Num(0)
    IN  RMin(RAdd(RAdd(a, b), c), Num(1))

\* `month` is datetime.now().month
_assess_seasonal_pest_risk(latitude, crop_type, month) ==
    IF RGt(latitude, Num(0))
    THEN IF crop_type \in {"rice", "cotton"} /\ month \in {6, 7, 8} THEN Tenths(8)
         ELSE IF crop_type = "wheat" /\ month \in {3, 4, 5} THEN Tenths(6)
         ELSE Tenths(4)
    ELSE IF month \in {12, 1, 2} THEN Tenths(7)
         ELSE Tenths(4)

_calculate_specific_pest_risks(risk_factors, crop_type, temp, humidity) ==
    LET base_risk == RDivInt(RAdd(RAdd(risk_factors.environmental,
                                       risk_factors.spectral_stress),
                                  risk_factors.seasonal), 3)
        x(k) == RMul(base_risk, Tenths(k))
    IN  IF crop_type = "rice" THEN
            [brown_planthopper |-> IF RGt(humidity, Num(80)) THEN x(9) ELSE x(6),
             rice_blast |-> IF RGt(humidity, Num(75)) /\ RGt(temp, Num(25))
                            THEN x(8) ELSE x(4),
             stem_borer |-> x(7),
             leaf_folder |-> IF RGt(temp, Num(28)) THEN x(6) ELSE x(4)]
        ELSE IF crop_type = "cotton" THEN
            [bollworm |-> IF RLt(Num(25), temp) /\ RLt(temp, Num(35))
                          THEN x(8) ELSE x(5),
             aphids |-> IF RLt(humidity, Num(60)) THEN x(7) ELSE x(4),
             whitefly |-> IF RGt(temp, Num(30)) THEN x(9) ELSE x(6),
             thrips |-> x(6)]
        ELSE IF crop_type = "wheat" THEN
            [rust |-> IF RGt(humidity, Num(70)) THEN x(8) ELSE x(3),
             aphids |-> x(7),
             termites |-> IF RLt(humidity, Num(50)) THEN x(5) ELSE x(3),
             army_worm |-> IF RGt(temp, Num(25)) THEN x(6) ELSE x(4)]
        ELSE
            [aphids |-> x(6),
             spider_mites |-> IF RLt(humidity, Num(50)) THEN x(5) ELSE x(3),
             thrips |-> x(5),
             fungal_diseases |-> IF RGt(humidity, Num(75)) THEN x(7) ELSE x(4)]

\* mutant: the plain mean of the three factors in place of the weighted sum
_calculate_overall_pest_risk_unweighted(risk_factors) ==
    RMin(RDivInt(RAdd(RAdd(risk_factors.environmental, risk_factors.spectral_stress),
                      risk_factors.seasonal), 3), Num(1))

_calculate_overall_pest_risk(risk_factors) ==
    LET weighted_risk ==
            RAdd(RAdd(RMul(GetOr(risk_factors, "environmental", Num(0)), Hundredths(40)),
                      RMul(GetOr(risk_factors, "spectral_stress", Num(0)), Hundredths(35))),
                 RMul(GetOr(risk_factors, "seasonal", Num(0)), Hundredths(25)))
    IN  RMin(weighted_risk, Num(1))

_categorize_risk_level(risk_score) ==
    IF RGe(risk_score, Tenths(7)) THEN "high"
    ELSE IF RGe(risk_score, Tenths(4)) THEN "medium"
    ELSE "low"

_generate_pest_recommendations(overall_risk, pest_risks, crop_type) ==
    LET general ==
            IF RGt(overall_risk, Tenths(7)) THEN
                <<"Implement intensive field monitoring (2-3 times per week)",
                  "Consider preventive pest control measures",
                  "Monitor weather conditions for pest-favorable periods">>
            ELSE IF RGt(overall_risk, Tenths(4)) THEN
                <<"Regular field scouting (weekly)",
                  "Maintain field hygiene and remove crop residues",
                  "Monitor threshold levels for economic pests">>
            ELSE <<>>
        rice ==
            IF crop_type = "rice"
               /\ RGt(GetOr(pest_risks, "brown_planthopper", Num(0)), Tenths(6))
            THEN <<"Monitor for brown planthopper, especially in humid conditions">>
            ELSE <<>>
        cotton ==
            IF crop_type = "cotton"
               /\ RGt(GetOr(pest_risks, "bollworm", Num(0)), Tenths(6))
            THEN <<"Check for bollworm eggs and larvae on cotton bolls">>
            ELSE <<>>
    IN  general \o rice \o cotton

\* assess_pest_risk; a weather value of None makes the first comparison raise,
\* and the handler answers with its fixed fallback
assess_pest_risk(indices, weather_data, field_coords, crop_type, month) ==
    LET latitude == field_coords[1]
        temperature == GetOr(weather_data, "temperature", Num(25))
        humidity == GetOr(weather_data, "humidity", Num(60))
        ndvi_mean == GetOr(GetOr(indices, "ndvi", EmptyDict), "mean", Tenths(5))
        ndvi_std == GetOr(GetOr(indices, "ndvi", EmptyDict), "std", Tenths(1))
        ndwi_mean == GetOr(GetOr(indices, "ndwi", EmptyDict), "mean", Tenths(3))
    IN  IF temperature = NoNumber \/ humidity = NoNumber
        THEN [overall_risk |-> Tenths(3), risk_level |-> "medium",
              error |-> "TypeError"]
        ELSE
            LET risk_factors ==
                    [environmental |->
                         _assess_environmental_pest_risk(temperature, humidity,
                                                         crop_type, latitude),
                     spectral_stress |->
                         _assess_spectral_stress(ndvi_mean, ndvi_std, ndwi_mean),
                     seasonal |-> _assess_seasonal_pest_risk(latitude, crop_type, month)]
                pest_risks == _calculate_specific_pest_risks(risk_factors, crop_type,
                                                             temperature, humidity)
                overall_risk == _calculate_overall_pest_risk(risk_factors)
            IN  [overall_risk |-> overall_risk,
                 risk_level |-> _categorize_risk_level(overall_risk),
                 risk_factors |-> risk_factors,
                 specific_pests |-> pest_risks,
                 environmental_conditions |->
                     [temperature |-> temperature,
                      humidity |-> humidity,
                      favorable_for_pests |->
                          /\ RGt(humidity, Num(70))
                          /\ RLt(Num(20), temperature)
                          /\ RLt(temperature, Num(35))],
                 recommendations |->
                     _generate_pest_recommendations(overall_risk, pest_risks, crop_type)]

-----------------------------------------------------------------------------
(* Assessments requested for a field *)

\* weather_data['temperature']: absent from the dict, None, or degrees Celsius
Temperatures == {NoNumber, Num(14), Num(22), Num(25), Num(26), Num(29), Num(31), Num(36)}

\* weather_data['humidity'] in percent
Humidities == {Num(39), Num(50), Num(60), Num(71), Num(76), Num(81)}

WeatherData ==
    {[temperature |-> t, humidity |-> h] : t \in Temperatures, h \in Humidities}
        \cup {[humidity |-> h] : h \in {Num(76)}}
        \cup {[temperature |-> t] : t \in {Num(29)}}

\* field latitudes: southern, equatorial, subtropical and temperate
Latitudes == {Num(-10), Num(0), Num(20), Num(40)}

CropTypes == {"rice", "cotton", "wheat", "general"}

Months == 1..12

\* the statistics of calculate_spectral_indices that the assessment reads;
\* the empty dict is what the analyzer returns when it fails
IndexStats ==
    {EmptyDict} \cup
    {[ndvi |-> [mean |-> m, std |-> sd], ndwi |-> [mean |-> w]] :
        m \in {Tenths(3), Tenths(4), Tenths(6)},
        sd \in {Hundredths(10), Hundredths(20)},
        w \in {Tenths(1), Tenths(2)}}

\* a warm, humid rice field at latitude 10
HumidRiceField ==
    [indices : IndexStats,
     weather_data : {[temperature |-> Num(28), humidity |-> Num(85)]},
     field_coords : {<<Num(10), Num(77)>>},
     crop_type : {"rice"}, month : Months]

InputsPest ==
    [indices : IndexStats, weather_data : WeatherData,
     field_coords : {<<lat, Num(77)>> : lat \in Latitudes},
     crop_type : CropTypes, month : Months]
        \cup HumidRiceField

InitPest ==
    /\ call = "init"
    /\ arg \in InputsPest
    /\ ret = <<>>
    /\ ModelIdle

AssessPestRisk ==
    /\ Applied("assess_pest_risk",
               assess_pest_risk(arg.indices, arg.weather_data, arg.field_coords,
                                arg.crop_type, arg.month))
    /\ ModelUnchanged

NextPest == AssessPestRisk

SpecPest == InitPest /\ [][NextPest]_vars

\* the assessment was computed (it is not the fallback answer)
Assessed == call = "assess_pest_risk" /\ "risk_factors" \in DOMAIN ret

InUnitInterval(x) == RGe(x, Num(0)) /\ RLe(x, Num(1))

\* C10: every computed assessment has overall_risk = 0.4 * environmental
\* + 0.35 * spectral_stress + 0.25 * seasonal, and the three factors and
\* overall_risk all lie in [0, 1]
C10_OverallRiskIsWeightedSum ==
    Assessed =>
        LET f == ret.risk_factors
            e == f.environmental
            sp == f.spectral_stress
            m == f.seasonal
        IN  /\ ret.overall_risk[1] * (100 * e[2] * sp[2] * m[2]) =
                  ret.overall_risk[2] *
                      (40 * e[1] * sp[2] * m[2] + 35 * sp[1] * e[2] * m[2]
                       + 25 * m[1] * e[2] * sp[2])
            /\ InUnitInterval(f.environmental)
            /\ InUnitInterval(f.spectral_stress)
            /\ InUnitInterval(f.seasonal)
            /\ InUnitInterval(ret.overall_risk)

\* C10 witness: an assessment with the largest factors (0.9, 1.0 and 0.8)
\* was computed, and its overall risk is 0.91
C10_Witness ==
    /\ Assessed
    /\ ret.risk_factors.environmental = Tenths(9)
    /\ ret.risk_factors.spectral_stress = Num(1)
    /\ ret.risk_factors.seasonal = Tenths(8)
    /\ ret.overall_risk = Hundredths(91)

\* C11: in every result of assess_pest_risk, the fallback answer included,
\* risk_level is high exactly when overall_risk >= 0.7, medium exactly when
\* 0.4 <= overall_risk < 0.7, and low otherwise
C11_RiskLevelMatchesThresholds ==
    call = "assess_pest_risk" =>
        LET r == ret.overall_risk
        IN  /\ ret.risk_level = "high" <=> RGe(r, Tenths(7))
            /\ ret.risk_level = "medium" <=> (RGe(r, Tenths(4)) /\ RLt(r, Tenths(7)))
            /\ ret.risk_level = "low" <=> RLt(r, Tenths(4))

\* the assessment of the warm, humid rice field was computed
HumidRiceFieldAssessed == Assessed /\ arg \in HumidRiceField

\* C12 as stated: the warm, humid rice field is assessed with overall_risk
\* >= 0.7 and risk_level high for every index summary and every month
C12_HumidRiceFieldIsHigh ==
    HumidRiceFieldAssessed =>
        /\ RGe(ret.overall_risk, Tenths(7))
        /\ ret.risk_level = "high"

\* C12 amended: for the warm, humid rice field the environmental factor is 0.9
\* and overall_risk = 0.36 + 0.35 * spectral_stress + 0.25 * seasonal >= 0.46;
\* the level is never low, it is high only if spectral_stress >= 0.4, and
\* with no spectral stress it is medium in every month
C12_HumidRiceFieldIsMediumOrHigh ==
    HumidRiceFieldAssessed =>
        LET f == ret.risk_factors
        IN  /\ f.environmental = Tenths(9)
            /\ ret.overall_risk =
                   RAdd(RAdd(Hundredths(36), RMul(Hundredths(35), f.spectral_stress)),
                        RMul(Hundredths(25), f.seasonal))
            /\ RGe(ret.overall_risk, Hundredths(46))
            /\ ret.risk_level \in {"medium", "high"}
            /\ ret.risk_level = "high" => RGe(f.spectral_stress, Tenths(4))
            /\ f.spectral_stress = Num(0) => ret.risk_level = "medium"

\* C12 witness: the warm, humid rice field assessed in July with an index
\* summary that shows no stress, and found at medium risk (0.56)
C12_Witness ==
    /\ HumidRiceFieldAssessed
    /\ arg.month = 7
    /\ ret.risk_factors.spectral_stress = Num(0)
    /\ ret.overall_risk = Hundredths(56)
    /\ ret.risk_level = "medium"

\* the multiplier the code selects for a pest of a crop
PestMultiplier(crop_type, pest, temp, humidity) ==
    IF crop_type = "rice" THEN
        CASE pest = "brown_planthopper" ->
                 IF RGt(humidity, Num(80)) THEN Tenths(9) ELSE Tenths(6)
          [] pest = "rice_blast" ->
                 IF RGt(humidity, Num(75)) /\ RGt(temp, Num(25))
                 THEN Tenths(8) ELSE Tenths(4)
          [] pest = "stem_borer" -> Tenths(7)
          [] pest = "leaf_folder" ->
                 IF RGt(temp, Num(28)) THEN Tenths(6) ELSE Tenths(4)
    ELSE IF crop_type = "cotton" THEN
        CASE pest = "bollworm" ->
                 IF RLt(Num(25), temp) /\ RLt(temp, Num(35))
                 THEN Tenths(8) ELSE Tenths(5)
          [] pest = "aphids" ->
                 IF RLt(humidity, Num(60)) THEN Tenths(7) ELSE Tenths(4)
          [] pest = "whitefly" ->
                 IF RGt(temp, Num(30)) THEN Tenths(9) ELSE Tenths(6)
          [] pest = "thrips" -> Tenths(6)
    ELSE IF crop_type = "wheat" THEN
        CASE pest = "rust" ->
                 IF RGt(humidity, Num(70)) THEN Tenths(8) ELSE Tenths(3)
          [] pest = "aphids" -> Tenths(7)
          [] pest = "termites" ->
                 IF RLt(humidity, Num(50)) THEN Tenths(5) ELSE Tenths(3)
          [] pest = "army_worm" ->
                 IF RGt(temp, Num(25)) THEN Tenths(6) ELSE Tenths(4)
    ELSE
        CASE pest = "aphids" -> Tenths(6)
          [] pest = "spider_mites" ->
                 IF RLt(humidity, Num(50)) THEN Tenths(5) ELSE Tenths(3)
          [] pest = "thrips" -> Tenths(5)
          [] pest = "fungal_diseases" ->
                 IF RGt(humidity, Num(75)) THEN Tenths(7) ELSE Tenths(4)

\* C13: every entry of specific_pests equals the assessment's overall_risk
\* times the multiplier selected for that crop and pest by humidity and
\* temperature
C13_PestRiskScalesOverall ==
    Assessed =>
        \A pest \in DOMAIN ret.specific_pests :
            ret.specific_pests[pest] =
                RMul(ret.overall_risk,
                     PestMultiplier(arg.crop_type, pest,
                                    ret.environmental_conditions.temperature,
                                    ret.environmental_conditions.humidity))

-----------------------------------------------------------------------------
(* Health zones: HyperspectralAnalyzer.analyze_health_zones
   (hyperspectral_analysis.py) *)

\* self.crop_thresholds
crop_thresholds ==
    [rice |-> [healthy_ndvi |-> Hundredths(80), stress_threshold |-> Hundredths(15)],
     wheat |-> [healthy_ndvi |-> Hundredths(70), stress_threshold |-> Hundredths(12)],
     cotton |-> [healthy_ndvi |-> Hundredths(75), stress_threshold |-> Hundredths(18)],
     sugarcane |-> [healthy_ndvi |-> Hundredths(85), stress_threshold |-> Hundredths(20)],
     maize |-> [healthy_ndvi |-> Hundredths(70), stress_threshold |-> Hundredths(15)]]

\* self.crop_thresholds.get(crop_type, {...})
CropThresh(crop_type) ==
    GetOr(crop_thresholds, crop_type,
          [healthy_ndvi |-> Hundredths(70), stress_threshold |-> Hundredths(15)])

\* mutant: the default threshold 0.7 applied to every crop
classify_crop_health_any_crop(ndvi, ndwi, crop_thresh) ==
    IF RGt(ndvi, Hundredths(70)) /\ RGt(ndwi, Tenths(3)) THEN "excellent"
    ELSE IF RGt(ndvi, Tenths(5)) /\ RGt(ndwi, Tenths(2)) THEN "good"
    ELSE IF RGt(ndvi, Tenths(3)) /\ RGt(ndwi, Tenths(1)) THEN "moderate"
    ELSE "poor"

classify_crop_health(ndvi, ndwi, crop_thresh) ==
    IF RGt(ndvi, crop_thresh.healthy_ndvi) /\ RGt(ndwi, Tenths(3)) THEN "excellent"
    ELSE IF RGt(ndvi, Tenths(5)) /\ RGt(ndwi, Tenths(2)) THEN "good"
    ELSE IF RGt(ndvi, Tenths(3)) /\ RGt(ndwi, Tenths(1)) THEN "moderate"
    ELSE "poor"

classify_soil_health(ndvi, ndsi) ==
    IF RGt(ndsi, Tenths(4)) /\ RLt(ndvi, Tenths(3)) THEN "degraded"
    ELSE IF RLt(Tenths(2), ndsi) /\ RLt(ndsi, Tenths(4))
            /\ RLt(Tenths(3), ndvi) /\ RLt(ndvi, Tenths(6)) THEN "moderate"
    ELSE "healthy"

\* collections.Counter of a list of labels, as a dict label -> count
Counter(labels) ==
    [l \in {labels[i] : i \in DOMAIN labels} |->
        Cardinality({i \in DOMAIN labels : labels[i] = l})]

\* Counter.most_common(1)[0][0]: a label of largest count, the one that
\* occurs first in the list among equals
MostCommon(labels) ==
    LET c == Counter(labels)
        first(l) == CHOOSE i \in DOMAIN labels :
                        /\ labels[i] = l
                        /\ \A j \in DOMAIN labels : labels[j] = l => i <= j
    IN  CHOOSE l \in DOMAIN c :
            \A m \in DOMAIN c :
                c[l] > c[m] \/ (c[l] = c[m] /\ first(l) <= first(m))

\* sum of the values of a dict of integers over the keys in S
RECURSIVE SumValues(_, _)
SumValues(d, S) ==
    IF S = {} THEN 0
    ELSE LET k == CHOOSE x \in S : TRUE IN d[k] + SumValues(d, S \ {k})

\* sum(stats.get(status, 0) * weight ...) / total_pixels, weights in hundredths
WeightedScore(stats, weights) ==
    LET total_pixels == SumValues(stats, DOMAIN stats)
        weighted_sum ==
            SumValues([l \in DOMAIN weights |-> GetOr(stats, l, 0) * weights[l]],
                      DOMAIN weights)
    IN  IF total_pixels = 0 THEN Half
        ELSE Rat(weighted_sum, 100 * total_pixels)

_calculate_health_score(crop_stats) ==
    WeightedScore(crop_stats,
                  [excellent |-> 100, good |-> 75, moderate |-> 50, poor |-> 25])

_calculate_soil_score(soil_stats) ==
    WeightedScore(soil_stats, [healthy |-> 100, moderate |-> 60, degraded |-> 20])

\* one summary block of analyze_health_zones
ZoneSummary(labels, overall_score) ==
    [classifications |-> labels,
     statistics |-> Counter(labels),
     overall_score |-> overall_score,
     dominant_zone |-> IF Len(labels) > 0 THEN MostCommon(labels) ELSE "unknown"]

\* analyze_health_zones; the loop runs over the ndvi values, and an ndwi or
\* ndsi list shorter than that raises IndexError, answered with {}
\* (field_grid is not read)
analyze_health_zones(indices, field_grid, crop_type) ==
    LET crop_thresh == CropThresh(crop_type)
        ndvi_values == GetOr(GetOr(indices, "ndvi", EmptyDict), "values", EmptyArray)
        ndwi_values == GetOr(GetOr(indices, "ndwi", EmptyDict), "values", EmptyArray)
        ndsi_values == GetOr(GetOr(indices, "ndsi", EmptyDict), "values", EmptyArray)
        n == Len(ndvi_values)
    IN  IF n > Len(ndwi_values) \/ n > Len(ndsi_values) THEN EmptyDict
        ELSE
        LET crop_health == [i \in 1..n |->
                classify_crop_health(ndvi_values[i], ndwi_values[i], crop_thresh)]
            soil_health == [i \in 1..n |->
                classify_soil_health(ndvi_values[i], ndsi_values[i])]
            crop_stats == Counter(crop_health)
            soil_stats == Counter(soil_health)
        IN  [crop_health |-> ZoneSummary(crop_health, _calculate_health_score(crop_stats)),
             soil_health |-> ZoneSummary(soil_health, _calculate_soil_score(soil_stats)),
             field_uniformity |->
                 [crop_variability |->
                      IF n > 0 THEN Rat(Cardinality(DOMAIN crop_stats), n) ELSE Num(0),
                  soil_variability |->
                      IF n > 0 THEN Rat(Cardinality(DOMAIN soil_stats), n) ELSE Num(0)]]

-----------------------------------------------------------------------------
(* Health zones requested for a field *)

\* index values of one pixel around the thresholds of the two classifiers
ZonePixels ==
    { [ndvi |-> Hundredths(v), ndwi |-> Tenths(w), ndsi |-> Tenths(sn)] :
        v \in {20, 30, 40, 50, 60, 70, 75, 80, 85, 90}, w \in {1, 2, 3, 4}, sn \in {3, 5} }

\* pixels that fall into four different crop-health zones for most crops
MixedPixels ==
    { [ndvi |-> Hundredths(v[1]), ndwi |-> Tenths(v[2]), ndsi |-> Tenths(3)] :
        v \in {<<90, 4>>, <<60, 3>>, <<40, 2>>, <<20, 1>>} }

\* the statistics dict of one index as calculate_spectral_indices builds it
StatsOf(px, name) == get_stats([i \in DOMAIN px |-> px[i][name]])

\* indices of one pixel, indices of several mixed pixels, the empty dict of a
\* failed index computation, and an ndvi list longer than the others (a
\* real_ndvi override with a single red value)
ZoneIndices ==
    { [k \in {"ndvi", "ndwi", "ndsi"} |-> StatsOf(px, k)] :
        px \in [1..1 -> ZonePixels] \cup PixelSeqs(MixedPixels) }
    \cup {EmptyDict}
    \cup { [ndvi |-> StatsOf(px, "ndvi"), ndwi |-> StatsOf(SubSeq(px, 1, 1), "ndwi"),
            ndsi |-> StatsOf(SubSeq(px, 1, 1), "ndsi")] :
            px \in [1..2 -> MixedPixels] }

ZoneCropTypes == {"rice", "wheat", "cotton", "sugarcane", "maize", "general", "soybean"}

InputsZones == [indices : ZoneIndices, crop_type : ZoneCropTypes]

InitZones ==
    /\ call = "init"
    /\ arg \in InputsZones
    /\ ret = <<>>
    /\ ModelIdle

AnalyzeHealthZones ==
    /\ Applied("analyze_health_zones",
               analyze_health_zones(arg.indices, EmptyDict, arg.crop_type))
    /\ ModelUnchanged

NextZones == AnalyzeHealthZones

SpecZones == InitZones /\ [][NextZones]_vars

\* the crop threshold as documented
DocumentedThreshold(crop_type) ==
    CASE crop_type = "rice" -> Hundredths(80)
      [] crop_type = "wheat" -> Hundredths(70)
      [] crop_type = "cotton" -> Hundredths(75)
      [] crop_type = "sugarcane" -> Hundredths(85)
      [] crop_type = "maize" -> Hundredths(70)
      [] OTHER -> Hundredths(70)

ZonesAnalyzed == call = "analyze_health_zones" /\ "crop_health" \in DOMAIN ret

\* C14: every pixel is labelled excellent iff ndvi > crop threshold and
\* ndwi > 0.3; otherwise good iff ndvi > 0.5 and ndwi > 0.2; otherwise
\* moderate iff ndvi > 0.3 and ndwi > 0.1; otherwise poor
C14_CropHealthCascade ==
    ZonesAnalyzed =>
        LET labels == ret.crop_health.classifications
            ndvi(i) == arg.indices.ndvi.values[i]
            ndwi(i) == arg.indices.ndwi.values[i]
            excellent(i) == RGt(ndvi(i), DocumentedThreshold(arg.crop_type))
                            /\ RGt(ndwi(i), Tenths(3))
            good(i) == RGt(ndvi(i), Tenths(5)) /\ RGt(ndwi(i), Tenths(2))
            moderate(i) == RGt(ndvi(i), Tenths(3)) /\ RGt(ndwi(i), Tenths(1))
        IN  /\ Len(labels) = Len(GetOr(GetOr(arg.indices, "ndvi", EmptyDict),
                                      "values", EmptyArray))
            /\ \A i \in DOMAIN labels :
                /\ labels[i] = "excellent" <=> excellent(i)
                /\ labels[i] = "good" <=> (~excellent(i) /\ good(i))
                /\ labels[i] = "moderate" <=> (~excellent(i) /\ ~good(i) /\ moderate(i))
                /\ labels[i] = "poor" <=> (~excellent(i) /\ ~good(i) /\ ~moderate(i))

\* C14 witness: a rice pixel with ndvi 0.80 and ndwi 0.4 (not above the rice
\* threshold 0.8) was labelled good
C14_Witness ==
    /\ ZonesAnalyzed
    /\ arg.crop_type = "rice"
    /\ Len(ret.crop_health.classifications) = 1
    /\ arg.indices.ndvi.values[1] = Hundredths(80)
    /\ arg.indices.ndwi.values[1] = Tenths(4)
    /\ ret.crop_health.classifications[1] = "good"


-----------------------------------------------------------------------------
(* Claims about missing bands and absent indices, checked under SpecIndex *)

\* a result that reports a failure to its caller (the model writes a raised
\* or reported failure as a record with an error field); an array or a
\* dictionary of statistics, empty or not, is not one
SignalsFailure(r) == DOMAIN r # {} /\ "error" \in DOMAIN r

\* C15: when a band an index function needs is empty, the function signals
\* a failure and produces no array: each standalone function for its two
\* bands, the analyzer's calculate_spectral_indices for red and nir
C15_EmptyBandSignalsMissingData ==
    /\ (call \in StandaloneCalls /\ ~HasBands(arg.data, call)) => SignalsFailure(ret)
    /\ (call = "calculate_spectral_indices" /\ ~({"red", "nir"} \subseteq DOMAIN arg.data))
          => SignalsFailure(ret.indices)

\* the indices the report describes: through statistics, through an
\* interpretation, or through the index statistics of its land-cover part
Reported(report) ==
    DOMAIN report.indices_stats
        \cup DOMAIN report.interpretations
        \cup (IF "index_stats" \in DOMAIN report.land_cover_analysis
              THEN DOMAIN report.land_cover_analysis.index_stats ELSE {})

\* C16: an index whose bands are missing is absent from the result of
\* calculate_all_indices, and the report of
\* generate_comprehensive_spectral_analysis describes an index only if the
\* supplied bands allowed computing it
C16_AbsentIndexNotFabricated ==
    /\ call = "calculate_all_indices" =>
          \A k \in DOMAIN ret : HasBands(arg.data, k)
    /\ call = "generate_comprehensive_spectral_analysis" =>
          \A k \in Reported(ret) : HasBands(arg.data, k)


\* the neutral placeholder of an interpret function: status Unknown, score
\* 50, confidence 50
IsPlaceholder(r, score_key) ==
    /\ r.status = "Unknown"
    /\ r[score_key] = 50
    /\ r.confidence = 50

InterpretedNonFinite(name) == call = name /\ arg.value \in NonFinite

\* C17: for nan, +inf and -inf each of interpret_ndvi, interpret_ndwi and
\* interpret_ndsi returns the placeholder Unknown / 50 / 50
C17_NonFiniteGivesPlaceholder ==
    /\ InterpretedNonFinite("interpret_ndvi") => IsPlaceholder(ret, "health_score")
    /\ InterpretedNonFinite("interpret_ndwi") => IsPlaceholder(ret, "water_score")
    /\ InterpretedNonFinite("interpret_ndsi") => IsPlaceholder(ret, "snow_score")


\* the names of the labels the classifier gave to at least one pixel
AssignedLabels == { LandCoverName(ret.land_cover[i]) : i \in DOMAIN ret.land_cover }

PixelCounts == [nm \in DOMAIN ret.land_cover_stats |-> ret.land_cover_stats[nm].pixel_count]

NoIndexPixels == \A k \in IndexNames : Len(Get(arg.indices, k)) = 0

\* C19: when no index array supplies any pixel, create_index_stack_analysis
\* returns an error result with the message 'No valid index data' (the
\* literal of the source, 'No valid index data provided', is taken as that
\* message too) and no land-cover statistics
C19_NoPixelsGivesNoValidIndexData ==
    (call = "create_index_stack_analysis" /\ NoIndexPixels) =>
        /\ DOMAIN ret = {"error"}
        /\ ret.error \in {"No valid index data", "No valid index data provided"}


-----------------------------------------------------------------------------
(* Specification of predict as a function of the instance and the rows:    *)
(* the initial state draws an instance and a 2-D array, one step applies   *)
(* predict and records, next to its result, the array the method holds     *)
(* when it reaches the scaling step                                        *)

\* largest number of columns of a drawn array
MaxWidth == 11

\* largest number of rows of a drawn array
MaxRows == 2

\* the local `features` of predict at the scaling step: untouched when the
\* method raised before (no model), otherwise every row padded or cut to
\* len(self.feature_names)
FeaturesAtScaling(self, features) ==
    IF self.model = "None" THEN features
    ELSE [i \in DOMAIN features |-> NormalizeRow(features[i], Len(self.feature_names))]

\* a row of k values, all different and none of them 0.5
SampleRow(k, seed) == [j \in 1..k |-> Rat(seed * j, 100)]

RowSeeds == {3, 7}

\* 2-D arrays: every row of an array has the array's width
FeatureArrays ==
    UNION { { [i \in 1..n |-> SampleRow(k, seeds[i])] : seeds \in [1..n -> RowSeeds] } :
            n \in 1..MaxRows, k \in 0..MaxWidth }

\* instances predict is called on: fresh, trained, and one whose load_model
\* stopped after taking the model of a foreign file
PredictInstances ==
    { RealAgriculturalModel,
      train_model(RealAgriculturalModel, <<>>, None, TRUE).self,
      RealAgriculturalModel_load_model(RealAgriculturalModel, LegacyDict).self }

InputsPredict == [self : PredictInstances, features : FeatureArrays]

\* answers of the two regressors that put the ensemble score on, just below
\* and well inside each cut point of predict
ThresholdScores ==
    { <<0, 0>>, <<29, 31>>, <<30, 30>>, <<49, 51>>, <<50, 50>>, <<69, 71>>,
      <<70, 70>>, <<79, 81>>, <<80, 80>>, <<100, 100>> }

InitPredict ==
    /\ call = "init"
    /\ arg \in InputsPredict
    /\ ret = <<>>
    /\ ModelIdle

PredictRows ==
    /\ \E s \in CallerScores \cup ThresholdScores :
        LET rf_pred == [i \in DOMAIN arg.features |-> s[1]]
            gb_pred == [i \in DOMAIN arg.features |-> s[2]]
        IN  Applied("predict",
                    [features |-> FeaturesAtScaling(arg.self, arg.features),
                     rf_pred |-> rf_pred,
                     gb_pred |-> gb_pred,
                     result |-> predict(arg.self, arg.features, rf_pred, gb_pred)])
    /\ ModelUnchanged

NextPredict == PredictRows

SpecPredict == InitPredict /\ [][NextPredict]_vars

\* predict got past its check of self.model
ReachedScaling == call = "predict" /\ arg.self.model # "None"

\* C20: every row predict hands to the scaler has exactly 9 values: the
\* row's own values in their places as far as they go, and 0.5 in every
\* place after them; a longer row keeps its first 9, a row of 9 is unchanged
C20_RowsNormalizedToNine ==
    ReachedScaling =>
        /\ DOMAIN ret.features = DOMAIN arg.features
        /\ \A i \in DOMAIN arg.features :
              /\ Len(ret.features[i]) = 9
              /\ \A j \in 1..9 :
                    ret.features[i][j] =
                        IF j <= Len(arg.features[i]) THEN arg.features[i][j] ELSE Half
              /\ Len(arg.features[i]) = 9 => ret.features[i] = arg.features[i]

\* C20 witness: a trained instance predicted on rows of five values; the
\* five stay in place and the sixth place holds 0.5
C20_Witness ==
    /\ ReachedScaling
    /\ arg.self.model = "ensemble"
    /\ Len(arg.features[1]) = 5
    /\ ret.features[1][5] = arg.features[1][5]
    /\ ret.features[1][6] = Half
    /\ "error" \notin DOMAIN ret.result

\* a trained instance predicted on rows of eleven values and kept nine
C20_WitnessTruncated ==
    /\ ReachedScaling
    /\ arg.self.model = "ensemble"
    /\ Len(arg.features[1]) = 11
    /\ Len(ret.features[1]) = 9
    /\ ret.features[1][9] = arg.features[1][9]


\* predict ran on a trained instance and answered for every row
PredictedByEnsemble == ReachedScaling /\ arg.self.model = "ensemble"

\* the result of row i: predict returns the one result itself for one row
RowResult(i) == IF Len(arg.features) = 1 THEN ret.result ELSE ret.result[i]

\* the ensemble score of row i, 0.6 * rf + 0.4 * gb
EnsembleScore(i) == Rat(6 * ret.rf_pred[i] + 4 * ret.gb_pred[i], 10)

\* C21: a trained model reports Excellent/95 for a score >= 80, Good/90 on
\* [70, 80), Moderate/85 on [50, 70), Poor/80 on [30, 50), Critical/75 below 30
C21_ScoreCutPoints ==
    PredictedByEnsemble =>
        \A i \in DOMAIN arg.features :
            LET sc == EnsembleScore(i)
                is(st, cf) == RowResult(i).status = st /\ RowResult(i).confidence = cf
                in(lo, hi) == RGe(sc, <<lo, 1>>) /\ RLt(sc, <<hi, 1>>)
            IN  /\ RGe(sc, <<80, 1>>) => is("Excellent", 95)
                /\ in(70, 80) => is("Good", 90)
                /\ in(50, 70) => is("Moderate", 85)
                /\ in(30, 50) => is("Poor", 80)
                /\ RLt(sc, <<30, 1>>) => is("Critical", 75)

\* C21 witness: a trained model scored a row exactly 70 and reported Good/90
C21_Witness ==
    /\ PredictedByEnsemble
    /\ EnsembleScore(1) = <<70, 1>>
    /\ RowResult(1).status = "Good"
    /\ RowResult(1).confidence = 90


-----------------------------------------------------------------------------
(* Claims about predict_crop_health, checked under SpecLoader *)

Statuses == {"Critical", "Poor", "Moderate", "Good", "Excellent"}

\* predict_crop_health returned a result with None as its error element
ReturnedAsSuccessful == call = "predict_crop_health" /\ ret.error = None

\* C22: every result predict_crop_health returns with error None has its
\* status among Critical, Poor, Moderate, Good, Excellent
C22_SuccessfulStatusIsKnown ==
    ReturnedAsSuccessful => ret.result.status \in Statuses


\* the last return is that of a load_model whose create_and_train_real_model
\* failed
ReturnedAfterFailedCreation ==
    /\ call = "load_model"
    /\ pc[arg.thread] = "failed"

\* C23: when creating and training the real model fails inside load_model,
\* load_model still falls back to another model: it sets the process-wide
\* loaded_model and returns a model, not None
C23_FailedCreationFallsBack ==
    ReturnedAfterFailedCreation =>
        /\ ret # NoInstance
        /\ loaded_model # NoInstance


-----------------------------------------------------------------------------
(* The Earth-Engine provider: get_real_satellite_data (gee_satellite.py).  *)
(* Each call submits the fetch to a ThreadPoolExecutor opened by a `with`  *)
(* statement and waits at most 3 seconds for the future.  pc[c] holds the  *)
(* position of the calling thread and of the worker thread of call c,      *)
(* arg[c] what the fetch is going to do, ret[c] what the call returned.    *)

\* number of concurrent calls of get_real_satellite_data
NCalls == 2

GeeCalls == 1..NCalls

\* what get_best_available_data does: it returns Sentinel-2 data, Landsat
\* data, the synthetic sample with or without a MODIS NDVI, or it never
\* returns (a request to Earth Engine that hangs)
FetchOutcomes == {"sentinel2", "landsat", "synthetic_modis", "synthetic", "hangs"}

\* _get_fallback_data
_get_fallback_data ==
    [success |-> TRUE, source |-> "Synthetic (Satellite data unavailable)",
     spectral_bands |-> "synthetic", data_type |-> "fallback_synthetic"]

\* the value get_best_available_data returns
get_best_available_data(outcome) ==
    CASE outcome = "sentinel2" ->
            [success |-> TRUE, source |-> "Sentinel-2 (Google Earth Engine)",
             spectral_bands |-> "sentinel2", data_type |-> "Surface Reflectance"]
      [] outcome = "landsat" ->
            [success |-> TRUE, source |-> "Landsat 8/9 (Google Earth Engine)",
             spectral_bands |-> "landsat", data_type |-> "Surface Reflectance"]
      [] outcome = "synthetic_modis" ->
            _get_fallback_data @@ [real_ndvi_source |-> "MODIS"]
      [] outcome = "synthetic" -> _get_fallback_data

InitGee ==
    /\ call = "get_real_satellite_data"
    /\ arg \in [GeeCalls -> [fetch : FetchOutcomes]]
    /\ ret = [c \in GeeCalls |-> <<>>]
    /\ pc = [c \in GeeCalls |-> [caller |-> "start", worker |-> "idle", pending |-> <<>>]]
    /\ inst = <<>>
    /\ fs = <<>>
    /\ loaded_model = NoInstance
    /\ scaler = None
    /\ real_model = <<>>
    /\ train_runs = 0
    /\ db = <<>>

GeeUnchanged == UNCHANGED <<call, arg, inst, fs, loaded_model, scaler, real_model, train_runs, db>>

\* future = executor.submit(fetch_with_timeout): the worker thread starts
Submit(c) ==
    /\ pc[c].caller = "start"
    /\ pc' = [pc EXCEPT ![c].caller = "waiting", ![c].worker = "running"]
    /\ UNCHANGED ret
    /\ GeeUnchanged

\* the worker thread finishes get_best_available_data
FetchCompletes(c) ==
    /\ pc[c].worker = "running"
    /\ arg[c].fetch # "hangs"
    /\ pc' = [pc EXCEPT ![c].worker = "done"]
    /\ UNCHANGED ret
    /\ GeeUnchanged

\* future.result(timeout=3) hands over the worker's value; `return result`
\* then leaves the with block
ResultInTime(c) ==
    /\ pc[c].caller = "waiting"
    /\ pc[c].worker = "done"
    /\ pc' = [pc EXCEPT ![c].caller = "exit",
                        ![c].pending = get_best_available_data(arg[c].fetch)]
    /\ UNCHANGED ret
    /\ GeeUnchanged

\* future.result(timeout=3) raises TimeoutError while the worker still runs;
\* the handler evaluates _get_fallback_data and its return leaves the with
\* block
Timeout(c) ==
    /\ pc[c].caller = "waiting"
    /\ pc[c].worker = "running"
    /\ pc' = [pc EXCEPT ![c].caller = "exit", ![c].pending = _get_fallback_data]
    /\ UNCHANGED ret
    /\ GeeUnchanged

\* ThreadPoolExecutor.__exit__ is shutdown(wait=True): it joins the worker
\* thread, and only then does the function return the pending value
ExecutorExit(c) ==
    /\ pc[c].caller = "exit"
    /\ pc[c].worker = "done"
    /\ pc' = [pc EXCEPT ![c].caller = "returned"]
    /\ ret' = [ret EXCEPT ![c] = pc[c].pending]
    /\ GeeUnchanged

NextGee ==
    \E c \in GeeCalls :
        \/ Submit(c)
        \/ FetchCompletes(c)
        \/ ResultInTime(c)
        \/ Timeout(c)
        \/ ExecutorExit(c)

\* every thread that can take a step eventually takes one, and the three
\* seconds of the wait elapse
FairGee ==
    \A c \in GeeCalls :
        /\ WF_vars(Submit(c))
        /\ WF_vars(FetchCompletes(c))
        /\ WF_vars(ResultInTime(c))
        /\ WF_vars(Timeout(c))
        /\ WF_vars(ExecutorExit(c))

SpecGee == InitGee /\ [][NextGee]_vars /\ FairGee

GeeReturned(c) ==
    /\ pc[c].caller = "returned"
    /\ ret[c].success
    /\ "spectral_bands" \in DOMAIN ret[c]

\* C24: every call of get_real_satellite_data eventually returns a result
\* with success and spectral_bands, also when its fetch never completes
C24_EveryCallReturns == \A c \in GeeCalls : <>GeeReturned(c)


-----------------------------------------------------------------------------
(* The predict route's feature matrix from directly supplied data          *)
(* (routes/predictions.py): the initial state draws a request body, one    *)
(* step builds the matrix and hands it to the ensemble                     *)

\* largest number of values a request lists for one quantity
MaxSamples == 2

\* the keys the route looks for, in its order
RouteFeatureKeys == <<"ndvi", "temperature", "humidity", "soil_moisture", "ph">>

\* the parameters a request may give outside a 'data' dict, with the
\* defaults data.get falls back to
DirectDefaults ==
    [temperature |-> <<25, 1>>, humidity |-> <<65, 1>>, soil_moisture |-> <<40, 1>>,
     ph |-> Rat(68, 10), precipitation |-> <<10, 1>>]

\* input_data of a request with direct parameters
DirectInputData(data) ==
    [k \in DOMAIN DirectDefaults |-> <<GetOr(data, k, DirectDefaults[k])>>]

\* `if features:` of the route: some key of its list is in input_data
HasFeatureKey(input_data) ==
    \E j \in DOMAIN RouteFeatureKeys : RouteFeatureKeys[j] \in DOMAIN input_data

\* processed_data['features']: one list per present key in the route's order,
\* shorter lists extended by their last value, transposed to rows; None when
\* no key is present
BuildFeatures(input_data) ==
    LET present == SelectSeq(RouteFeatureKeys, LAMBDA k : k \in DOMAIN input_data)
        max_len == CHOOSE n \in {Len(input_data[present[j]]) : j \in DOMAIN present} :
                       \A j \in DOMAIN present : Len(input_data[present[j]]) <= n
        padded(k, r) == IF r <= Len(input_data[k]) THEN input_data[k][r]
                        ELSE input_data[k][Len(input_data[k])]
    IN  IF present = <<>> THEN None
        ELSE [r \in 1..max_len |-> [j \in DOMAIN present |-> padded(present[j], r)]]

\* the values a request supplies for a quantity: all different between
\* quantities, and none of them the padding value 0.5
SuppliedValue(k, r) ==
    CASE k = "ndvi" -> Rat(60 + r, 100)
      [] k = "temperature" -> <<29 + r, 1>>
      [] k = "humidity" -> <<69 + r, 1>>
      [] k = "soil_moisture" -> <<44 + r, 1>>
      [] k = "ph" -> Rat(67 + r, 10)
      [] k = "precipitation" -> <<11 + r, 1>>

\* 'data' dicts: any subset of the quantities, each with 1..MaxSamples values
DataDicts ==
    UNION { [S -> 1..MaxSamples] : S \in SUBSET {"ndvi", "temperature", "humidity", "soil_moisture", "ph"} }

InputDataOf(lens) == [k \in DOMAIN lens |-> [r \in 1..lens[k] |-> SuppliedValue(k, r)]]

\* direct parameters: any non-empty subset of the five parameter names
DirectParams ==
    { [k \in S |-> SuppliedValue(k, 1)] : S \in (SUBSET DOMAIN DirectDefaults) \ {{}} }

InputsRoute ==
    { [kind |-> "data", input_data |-> InputDataOf(lens)] : lens \in DataDicts }
        \cup { [kind |-> "direct", input_data |-> DirectInputData(d)] : d \in DirectParams }

InitRoute ==
    /\ call = "init"
    /\ arg \in InputsRoute
    /\ ret = <<>>
    /\ ModelIdle

\* the route builds the matrix and predict_crop_health hands it to the
\* trained ensemble, whose predict brings every row to nine slots
RoutePredicts ==
    /\ HasFeatureKey(arg.input_data)
    /\ LET features == BuildFeatures(arg.input_data)
           trained == train_model(RealAgriculturalModel, <<>>, None, TRUE).self
       IN  Applied("predict_route",
                   [features |-> features,
                    rows |-> FeaturesAtScaling(trained, features)])
    /\ ModelUnchanged

\* validate_processed_data rejects a request without any of the keys
RouteRejects ==
    /\ ~HasFeatureKey(arg.input_data)
    /\ Applied("predict_route", [error |-> "Validation error: Feature matrix is empty"])
    /\ ModelUnchanged

NextRoute == RoutePredicts \/ RouteRejects

SpecRoute == InitRoute /\ [][NextRoute]_vars

\* the slot of the ensemble's feature order that is named for a quantity
\* of the request (the request calls soil_ph 'ph')
SlotOf(k) ==
    CHOOSE j \in DOMAIN FeatureNames :
        FeatureNames[j] = (IF k = "ph" THEN "soil_ph" ELSE k)

RouteHandedRows == call = "predict_route" /\ "rows" \in DOMAIN ret

\* C25: in every row the route hands to the ensemble each supplied quantity
\* sits in the slot named for it: NDVI in slot 0, temperature in slot 1,
\* humidity in slot 2, soil moisture in slot 3, soil pH in slot 4
C25_FeaturesKeepSlotOrder ==
    RouteHandedRows =>
        \A j \in DOMAIN RouteFeatureKeys :
            LET k == RouteFeatureKeys[j]
            IN  k \in DOMAIN arg.input_data =>
                    ret.rows[1][SlotOf(k)] = arg.input_data[k][1]


-----------------------------------------------------------------------------
(* Claims about the methods of RealAgriculturalModel, checked under SpecModel *)

\* C26: a load_model that returns False leaves the instance's model, scaler,
\* feature_names and model_info as they were before the call
C26_FailedLoadChangesNothing ==
    [][(call' = "load_model" /\ LoadModel /\ ret' = FALSE)
          => inst'[arg'.self] = inst[arg'.self]]_vars


-----------------------------------------------------------------------------
(* Claims about the pest recommendations, checked under SpecPest *)

IntensiveMonitoring ==
    { "Implement intensive field monitoring (2-3 times per week)",
      "Consider preventive pest control measures",
      "Monitor weather conditions for pest-favorable periods" }

RegularScouting ==
    { "Regular field scouting (weekly)",
      "Maintain field hygiene and remove crop residues",
      "Monitor threshold levels for economic pests" }

Recommended == { ret.recommendations[i] : i \in DOMAIN ret.recommendations }

\* C27: the generic recommendations of an assessment agree with its
\* risk_level: high has the three intensive-monitoring lines, medium the
\* three regular-scouting lines, low has none of the six
C27_RecommendationsMatchLevel ==
    Assessed =>
        /\ ret.risk_level = "high" => IntensiveMonitoring \subseteq Recommended
        /\ ret.risk_level = "medium" => RegularScouting \subseteq Recommended
        /\ ret.risk_level = "low" =>
              Recommended \cap (IntensiveMonitoring \cup RegularScouting) = {}

\* an assessment whose overall risk is 0.4 * 0.9 + 0.35 * 0.4 + 0.25 * 0.8,
\* which is 0.7 in floating point as well
FloatExactSeventy ==
    /\ Assessed
    /\ ret.risk_factors.environmental = Tenths(9)
    /\ ret.risk_factors.spectral_stress = Tenths(4)
    /\ ret.risk_factors.seasonal = Tenths(8)


-----------------------------------------------------------------------------
(* NDVI trends: calculate_ndvi_trends (ndvi.py).  The initial state draws  *)
(* a history, one step applies the function.  The least-squares slope is   *)
(* the exact one; the rounding of np.polyfit is not represented.           *)

\* longest history drawn
MaxHistory == 3

\* NDVI values of a history, in hundredths
HistoryValues == {0, 49, 50, 51, 52, 60}

Histories == UNION { [1..n -> HistoryValues] : n \in 0..MaxHistory }

RECURSIVE SumOver(_, _)
SumOver(f, n) == IF n = 0 THEN 0 ELSE f[n] + SumOver(f, n - 1)

\* np.polyfit(np.arange(n), ndvi_array, 1)[0]: the least-squares slope over
\* the time points 0..n-1, for n >= 2
LinearSlope(history) ==
    LET n == Len(history)
        x == [t \in 1..n |-> t - 1]
        sx == SumOver(x, n)
        sy == SumOver(history, n)
        sxy == SumOver([t \in 1..n |-> x[t] * history[t]], n)
        sxx == SumOver([t \in 1..n |-> x[t] * x[t]], n)
    IN  Rat(n * sxy - sx * sy, Scale * (n * sxx - sx * sx))

\* ((last - first) / first) * 100 on numpy floats: a zero first value gives
\* an infinity or nan, not an exception
ChangeRate(history) ==
    LET first == history[1]
        last == history[Len(history)]
    IN  IF first # 0 THEN Rat((last - first) * 100, first)
        ELSE IF last > 0 THEN PosInf
        ELSE IF last < 0 THEN NegInf
        ELSE NaN

\* the cascade on the slope
TrendOfSlope(slope) ==
    IF RLt(RAbs(slope), Hundredths(1)) THEN [trend |-> "stable", direction |-> "no_change"]
    ELSE IF RGt(slope, Hundredths(1)) THEN [trend |-> "improving", direction |-> "increasing"]
    ELSE [trend |-> "declining", direction |-> "decreasing"]

calculate_ndvi_trends(ndvi_history) ==
    IF Len(ndvi_history) < 2
    THEN [trend |-> "insufficient_data", direction |-> "unknown",
          slope |-> Num(0), change_rate |-> Num(0)]
    ELSE
        LET slope == LinearSlope(ndvi_history)
            t == TrendOfSlope(slope)
        IN  [trend |-> t.trend,
             direction |-> t.direction,
             slope |-> RoundTo(slope, 10000),
             change_rate |-> RoundTo(ChangeRate(ndvi_history), 100),
             current_ndvi |-> RoundTo(Rat(ndvi_history[Len(ndvi_history)], Scale), 1000),
             average_ndvi |->
                 RoundTo(Rat(SumOver(ndvi_history, Len(ndvi_history)),
                             Scale * Len(ndvi_history)), 1000)]

InitTrends ==
    /\ call = "init"
    /\ arg \in [ndvi_history : Histories]
    /\ ret = <<>>
    /\ ModelIdle

CalculateNdviTrends ==
    /\ Applied("calculate_ndvi_trends", calculate_ndvi_trends(arg.ndvi_history))
    /\ ModelUnchanged

NextTrends == CalculateNdviTrends

SpecTrends == InitTrends /\ [][NextTrends]_vars

TrendFitted == call = "calculate_ndvi_trends" /\ Len(arg.ndvi_history) >= 2

-----------------------------------------------------------------------------
(* Alerts: the predict and get_alerts routes (routes/predictions.py) and   *)
(* the AlertModel they are bound to.  predictions.py takes AlertModel from *)
(* database.db only if importing database.sqlite_db raises ImportError;    *)
(* otherwise it defines its own AlertModel, whose create_alert stores      *)
(* nothing and whose get_alerts_by_user returns [].  Database statements   *)
(* are taken to succeed; rows are kept without id and timestamp.           *)

\* number of fields
NFields == 2

Fields == 1..NFields
Users == {1, 2}

\* the user FieldModel.get_field_by_id finds the field for
OwnerOf(field_id) == ((field_id - 1) % 2) + 1

\* "dummy": the class defined in predictions.py; "database": database.db's
AlertModels == {"dummy", "database"}

\* health scores predict_crop_health hands back to the route
RouteScores == {10, 35, 85}

PredictionModel_create_prediction(d, field_id, user_id, health_score, status) ==
    [d EXCEPT !.predictions =
        @ \cup {[field_id |-> field_id, user_id |-> user_id,
                 health_score |-> health_score, status |-> status]}]

AlertModel_create_alert(d, field_id, user_id, alert_type, severity) ==
    IF d.alert_model = "dummy" THEN d
    ELSE [d EXCEPT !.alerts =
            @ \cup {[field_id |-> field_id, user_id |-> user_id,
                     alert_type |-> alert_type, severity |-> severity,
                     is_read |-> FALSE]}]

AlertModel_get_alerts_by_user(d, user_id, unread_only) ==
    IF d.alert_model = "dummy" THEN {}
    ELSE {a \in d.alerts : a.user_id = user_id /\ (unread_only => ~a.is_read)}

InitAlerts ==
    /\ call = "init"
    /\ arg = <<>>
    /\ ret = <<>>
    /\ inst = <<>>
    /\ fs = <<>>
    /\ loaded_model = NoInstance
    /\ scaler = None
    /\ pc = <<>>
    /\ real_model = <<>>
    /\ train_runs = 0
    /\ \E m \in AlertModels : db = [alert_model |-> m, predictions |-> {}, alerts |-> {}]

AlertsUnchanged == UNCHANGED <<inst, fs, loaded_model, scaler, pc, real_model, train_runs>>

\* POST /predict by user_id for field_id, from the field lookup on; the
\* prediction itself is the drawn health score with its status
PredictRoute ==
    \E user_id \in Users, field_id \in Fields, health_score \in RouteScores :
        LET status == ScoreStatus(Num(health_score)).status
            saved == PredictionModel_create_prediction(db, field_id, user_id,
                                                       health_score, status)
        IN  /\ call' = "predict"
            /\ arg' = [user_id |-> user_id, field_id |-> field_id]
            /\ IF OwnerOf(field_id) # user_id
               THEN /\ ret' = [code |-> 404, error |-> "Field not found"]
                    /\ UNCHANGED db
               ELSE /\ db' = IF status = "Poor" \/ health_score < 30
                             THEN AlertModel_create_alert(saved, field_id, user_id,
                                                          "poor_health", "high")
                             ELSE saved
                    /\ ret' = [code |-> 200,
                               prediction |-> [health_score |-> health_score,
                                               status |-> status]]
            /\ AlertsUnchanged

\* GET /alerts by user_id
GetAlerts ==
    \E user_id \in Users, unread_only \in BOOLEAN :
        LET alerts == AlertModel_get_alerts_by_user(db, user_id, unread_only)
        IN  /\ call' = "get_alerts"
            /\ arg' = [user_id |-> user_id, unread_only |-> unread_only]
            /\ ret' = [code |-> 200, alerts |-> alerts,
                       total_count |-> Cardinality(alerts),
                       unread_count |-> Cardinality({a \in alerts : ~a.is_read})]
            /\ UNCHANGED db
            /\ AlertsUnchanged

NextAlerts == PredictRoute \/ GetAlerts

SpecAlerts == InitAlerts /\ [][NextAlerts]_vars

\* a prediction of the user for the field was saved with status 'Poor' or a
\* health score below 30
PoorCompleted(user_id, field_id) ==
    \E p \in db.predictions :
        /\ p.user_id = user_id
        /\ p.field_id = field_id
        /\ (p.status = "Poor" \/ p.health_score < 30)

\* C29: once the predict route has completed a prediction with status
\* 'Poor' or a health score below 30, every later get_alerts request of the
\* same user returns an alert for that field
C29_PoorPredictionIsAlerted ==
    call = "get_alerts" =>
        \A f \in Fields :
            PoorCompleted(arg.user_id, f) => \E a \in ret.alerts : a.field_id = f


-----------------------------------------------------------------------------
(* Average NDVI of a processed data dictionary: calculate_ndvi_from_data   *)
(* and estimate_ndvi_from_features (ndvi.py).  The 'ndvi' entry is what    *)
(* process_csv_file stored: the first column named like ndvi, or else the  *)
(* first numeric column whatever it measures.                              *)

\* np.mean of the array under a key, in reflectance units; bands and index
\* entries are stored in hundredths
MeanOfEntry(values) ==
    IF Len(values) = 0 THEN NaN ELSE RDivInt(Mean([i \in DOMAIN values |-> Num(values[i])]), Scale)

\* np.clip(x, 0.0, 1.0)
Clip01(x) ==
    IF RGt(x, Num(1)) THEN Num(1)
    ELSE IF RLt(x, Num(0)) THEN Num(0)
    ELSE x

\* the four adjustments; environmental entries are non-empty arrays of
\* whole units, pH in tenths
TemperatureAdjustment(data) ==
    IF "temperature" \notin DOMAIN data THEN Num(0)
    ELSE LET temp == Mean([i \in DOMAIN data.temperature |-> Num(data.temperature[i])])
         IN  IF RLe(Num(20), temp) /\ RLe(temp, Num(30)) THEN Tenths(1)
             ELSE IF RLt(temp, Num(10)) \/ RGt(temp, Num(40)) THEN Tenths(-2)
             ELSE IF RLt(temp, Num(15)) \/ RGt(temp, Num(35)) THEN Tenths(-1)
             ELSE Num(0)

MoistureAdjustment(data) ==
    IF "soil_moisture" \notin DOMAIN data THEN Num(0)
    ELSE LET moisture == Mean([i \in DOMAIN data.soil_moisture |-> Num(data.soil_moisture[i])])
         IN  IF RGt(moisture, Num(60)) THEN Hundredths(15)
             ELSE IF RGt(moisture, Num(40)) THEN Hundredths(5)
             ELSE IF RLt(moisture, Num(20)) THEN Tenths(-2)
             ELSE Num(0)

HumidityAdjustment(data) ==
    IF "humidity" \notin DOMAIN data THEN Num(0)
    ELSE LET humidity == Mean([i \in DOMAIN data.humidity |-> Num(data.humidity[i])])
         IN  IF RLe(Num(50), humidity) /\ RLe(humidity, Num(70)) THEN Hundredths(5)
             ELSE IF RLt(humidity, Num(30)) THEN Tenths(-1)
             ELSE Num(0)

PhAdjustment(data) ==
    IF "ph" \notin DOMAIN data THEN Num(0)
    ELSE LET ph == Mean([i \in DOMAIN data.ph |-> Tenths(data.ph[i])])
         IN  IF RLe(Num(6), ph) /\ RLe(ph, Tenths(75)) THEN Hundredths(5)
             ELSE IF RLt(ph, Tenths(55)) \/ RGt(ph, Num(8)) THEN Tenths(-1)
             ELSE Num(0)

estimate_ndvi_from_features(data) ==
    [avg_ndvi |->
        Clip01(RAdd(RAdd(RAdd(RAdd(Half, TemperatureAdjustment(data)),
                              MoistureAdjustment(data)),
                         HumidityAdjustment(data)),
                    PhAdjustment(data))),
     status |-> "estimated_from_features"]

calculate_ndvi_from_data(data) ==
    IF "ndvi" \in DOMAIN data
    THEN [avg_ndvi |-> MeanOfEntry(data.ndvi), status |-> "success"]
    ELSE
        LET ndvi_values == IF "red" \in DOMAIN data /\ "nir" \in DOMAIN data
                           THEN calculate_ndvi(data.red, data.nir)
                           ELSE EmptyArray
        IN  IF Len(ndvi_values) > 0
            THEN [avg_ndvi |-> Mean(ndvi_values), status |-> "success"]
            ELSE IF "vegetation_index" \in DOMAIN data
            THEN [avg_ndvi |-> MeanOfEntry(data.vegetation_index),
                  status |-> "estimated_from_vi"]
            ELSE estimate_ndvi_from_features(data)

\* the arrays a data dictionary may carry under each key
EntryChoices ==
    [ndvi |-> << <<30, 50>>, <<2500, 3100>>, <<-150>>, <<>> >>,
     red |-> << <<5>>, <<0>>, <<5, 6>> >>,
     nir |-> << <<60>>, <<0>>, <<60, 70, 80>> >>,
     vegetation_index |-> << <<40>>, <<180>> >>,
     temperature |-> << <<25>>, <<5>> >>,
     soil_moisture |-> << <<70>>, <<10>> >>,
     humidity |-> << <<60>>, <<20>> >>,
     ph |-> << <<65>>, <<50>> >>]

EntryKeys == DOMAIN EntryChoices

\* the dictionary with the chosen array under each key; choice 0 leaves
\* the key out
DataOf(choice) ==
    [k \in {j \in EntryKeys : choice[j] > 0} |-> EntryChoices[k][choice[k]]]

InputsNdviData ==
    { [data |-> DataOf(choice)] :
        choice \in { c \in [EntryKeys -> 0..4] :
                        \A k \in EntryKeys : c[k] <= Len(EntryChoices[k]) } }

InitNdviData ==
    /\ call = "init"
    /\ arg \in InputsNdviData
    /\ ret = <<>>
    /\ ModelIdle

CalculateNdviFromData ==
    /\ Applied("calculate_ndvi_from_data", calculate_ndvi_from_data(arg.data))
    /\ ModelUnchanged

NextNdviData == CalculateNdviFromData

SpecNdviData == InitNdviData /\ [][NextNdviData]_vars

FiniteInUnit(x) == x[2] # 0 /\ InUnit(x)

\* C30: whichever source calculate_ndvi_from_data uses, the average NDVI
\* it returns is a finite number in [-1, 1]
C30_AverageNdviInUnitRange ==
    call = "calculate_ndvi_from_data" => FiniteInUnit(ret.avg_ndvi)

\* computed from the bands or estimated from the environment, the average
\* is a finite number in [-1, 1]
AverageInUnitRangeWithoutProxy ==
    (call = "calculate_ndvi_from_data" /\ ret.status \in {"success", "estimated_from_features"}
        /\ "ndvi" \notin DOMAIN arg.data)
        => FiniteInUnit(ret.avg_ndvi)

\* an estimate that np.clip raised to 0
EstimateClippedAtZero ==
    /\ call = "calculate_ndvi_from_data"
    /\ ret.status = "estimated_from_features"
    /\ ret.avg_ndvi = Num(0)
    /\ DOMAIN arg.data = {"temperature", "soil_moisture", "humidity", "ph"}

====
